---- MODULE Spec2Model ----
(***************************************************************************)
(* galachain-docs-mcp: the index build (buildIndex), the process entry     *)
(* point (main) with its background build and status, the sql.js wrapper   *)
(* around the process-wide store handle, and the four tool operations      *)
(* with the queries behind them.                                           *)
(*                                                                         *)
(* Text is a sequence of one-character strings; a file path is a sequence  *)
(* of path tokens (see PathTokens); an optional value is <<>> (null) or    *)
(* <<v>>.                                                                  *)
(***************************************************************************)
EXTENDS Integers, Sequences, FiniteSets, TLC

VARIABLES
    argvRebuild,    \* process.argv.includes('--rebuild')
    pc,             \* position of main()
    exitCode,       \* process.exit code, <<>> while running
    indexStatus,    \* index.ts: indexStatus
    indexError,     \* index.ts: indexError (<<>> is null)
    SQL,            \* wrapper.ts: SQL initialised by initSqlJs
    db,             \* wrapper.ts: the process-wide handle (<<>> is null)
    dbPath,         \* wrapper.ts: dbPath
    disk,           \* the file at DB_PATH (<<>>: no file)
    repoExists,     \* REPO_DIR exists on disk
    bpc,            \* position of the buildIndex() promise
    buildError,     \* rejection reason of buildIndex
    files,          \* getDocsFiles(repoDir)
    fileIdx,        \* index of the next file of the for loop
    docCount,
    classCount,
    memberCount,
    failedFiles,    \* history: loop iterations that ended in the catch block
    diskAtStart,    \* history: disk when buildIndex was called
    dbAtStart,      \* history: db when buildIndex was called
    gitFailed,      \* history: the git command of fetchDocs that failed, or "none"
    req,            \* the CallToolRequest that has arrived (<<>>: none)
    resp,           \* history: the last tool request and its response
    parserIn,       \* the text or syntax tree a parser is called with
    parserOut       \* history: what the calls of the parser returned

vars == <<argvRebuild, pc, exitCode, indexStatus, indexError, SQL, db, dbPath,
          disk, repoExists, bpc, buildError, files, fileIdx, docCount,
          classCount, memberCount, failedFiles, diskAtStart, dbAtStart,
          gitFailed, req, resp, parserIn, parserOut>>

NULL == <<>>
Some(x) == <<x>>

Min(a, b) == IF a < b THEN a ELSE b
Max(a, b) == IF a > b THEN a ELSE b

\* ------------------------------------------------------------------ text

\* String.prototype.toLowerCase on one character of the model's alphabet
LowerChar(c) ==
    CASE c = "A" -> "a"
      [] c = "B" -> "b"
      [] c = "F" -> "f"
      [] OTHER -> c

toLowerCase(s) == [i \in 1..Len(s) |-> LowerChar(s[i])]

\* the characters \s matches
IsSpace(c) == c \in {" ", "\n"}

\* the characters \w matches; "extends", "Extends", "Classes",
\* "constructor", "new", "method" and "get" are the pieces of text that
\* spell these words
IsWordChar(c) == c \in {"a", "b", "f", "o", "A", "B", "F", "_", "0",
                        "extends", "Extends", "Classes", "constructor", "new",
                        "method", "get"}

\* s.slice(i - 1, i - 1 + Len(t)) === t, for a 1-based position i
MatchAt(s, t, i) ==
    /\ i >= 1
    /\ i + Len(t) - 1 <= Len(s)
    /\ \A k \in 1..Len(t) : s[i + k - 1] = t[k]

\* String.prototype.includes
includes(s, t) == \E i \in 1..(Len(s) + 1) : MatchAt(s, t, i)

\* String.prototype.trim
RECURSIVE trimStart(_)
trimStart(s) ==
    IF s # <<>> /\ IsSpace(Head(s)) THEN trimStart(Tail(s)) ELSE s

RECURSIVE trimEnd(_)
trimEnd(s) ==
    IF s # <<>> /\ IsSpace(s[Len(s)]) THEN trimEnd(SubSeq(s, 1, Len(s) - 1)) ELSE s

trim(s) == trimEnd(trimStart(s))

\* s.split(/\s+/): the pieces between maximal runs of whitespace, the empty
\* leading and trailing pieces included
RECURSIVE SplitFrom(_, _, _)
SplitFrom(s, i, cur) ==
    IF i > Len(s) THEN <<cur>>
    ELSE IF IsSpace(s[i])
         THEN IF i > 1 /\ IsSpace(s[i - 1])
              THEN SplitFrom(s, i + 1, cur)
              ELSE <<cur>> \o SplitFrom(s, i + 1, <<>>)
         ELSE SplitFrom(s, i + 1, Append(cur, s[i]))

splitWs(s) == SplitFrom(s, 1, <<>>)

\* Array.prototype.join(' ')
RECURSIVE joinSp(_)
joinSp(ss) ==
    IF ss = <<>> THEN <<>>
    ELSE IF Len(ss) = 1 THEN ss[1]
    ELSE ss[1] \o <<" ">> \o joinSp(Tail(ss))

\* ------------------------------------------------------------------ paths

\* The pieces file paths are made of. 'chain-client' is "chain-cli" followed
\* by "ent", so that includes('chain-cli') sees it inside 'chain-client'.
PathTokens == {"docs", "/", "x", ".md", "chain-api", "chain-cli", "ent",
               "chain-test", "chaincode", "-docs", "README", "CLAUDE",
               "BREAKING", "getting-started", "from-zero", "galachain-sdk"}

\* build-index.ts: file.includes('-docs/')
isTypedocFile(path) == includes(path, <<"-docs", "/">>)

detectPackage(filePath) ==
    IF includes(filePath, <<"chain-api", "-docs">>) THEN "chain-api"
    ELSE IF includes(filePath, <<"chain-cli", "ent", "-docs">>) THEN "chain-client"
    ELSE IF includes(filePath, <<"chain-test", "-docs">>) THEN "chain-test"
    ELSE IF includes(filePath, <<"chaincode", "-docs">>) THEN "chaincode"
    ELSE IF includes(filePath, <<"chain-cli">>) THEN "chain-cli"
    ELSE "guides"

detectCategory(filePath) ==
    IF includes(filePath, <<"-docs", "/">>) THEN "api"
    ELSE IF includes(filePath, <<"getting-started">>) THEN "tutorial"
    ELSE IF includes(filePath, <<"from-zero">>) THEN "tutorial"
    ELSE IF includes(filePath, <<"README">>) THEN "reference"
    ELSE IF includes(filePath, <<"CLAUDE">>) THEN "reference"
    ELSE IF includes(filePath, <<"BREAKING">>) THEN "reference"
    ELSE "guide"

detectPackageFromPath(filePath) ==
    IF includes(filePath, <<"chain-api", "-docs">>) THEN "chain-api"
    ELSE IF includes(filePath, <<"chain-cli", "ent", "-docs">>) THEN "chain-client"
    ELSE IF includes(filePath, <<"chain-test", "-docs">>) THEN "chain-test"
    ELSE IF includes(filePath, <<"chaincode", "-docs">>) THEN "chaincode"
    ELSE "unknown"

\* ------------------------------------------------------------------ JSON

\* The characters of a string as JSON.stringify writes them between the
\* quotes: the quote and the backslash get a backslash, the newline is \n.
RECURSIVE jsonEscape(_)
jsonEscape(s) ==
    IF s = <<>> THEN <<>>
    ELSE (IF Head(s) \in {"\"", "\\"} THEN <<"\\", Head(s)>>
          ELSE IF Head(s) = "\n" THEN <<"\\", "n">>
          ELSE <<Head(s)>>) \o jsonEscape(Tail(s))

\* mutant: the characters are written between the quotes as they are
jsonStringRaw(s) == <<"\"">> \o s \o <<"\"">>

\* JSON.stringify of a string
jsonString(s) == <<"\"">> \o jsonEscape(s) \o <<"\"">>

\* Array.prototype.join(',') of the texts of the items of an array
RECURSIVE joinComma(_)
joinComma(ss) ==
    IF ss = <<>> THEN <<>>
    ELSE IF Len(ss) = 1 THEN ss[1]
    ELSE ss[1] \o <<",">> \o joinComma(Tail(ss))

\* JSON.stringify of a string[]
stringifyStrings(list) ==
    <<"[">> \o joinComma([i \in 1..Len(list) |-> jsonString(list[i])]) \o <<"]">>

\* JSON.stringify of a ParamInfo: the keys in the order of the object
\* literal; a key is one piece of the text, as are true and false
stringifyParam(p) ==
    <<"{">> \o jsonString(<<"name">>) \o <<":">> \o jsonString(p.name)
    \o <<",">> \o jsonString(<<"type">>) \o <<":">> \o jsonString(p.type)
    \o <<",">> \o jsonString(<<"description">>) \o <<":">> \o jsonString(p.description)
    \o <<",">> \o jsonString(<<"optional">>) \o <<":">>
    \o (IF p.optional THEN <<"true">> ELSE <<"false">>) \o <<"}">>

\* JSON.stringify of a ParamInfo[]
stringifyParams(list) ==
    <<"[">> \o joinComma([i \in 1..Len(list) |-> stringifyParam(list[i])]) \o <<"]">>

\* A step of JSON.parse: whether the text is well formed so far, the value
\* read and the position after it.
JsonFail == [ok |-> FALSE, val |-> <<>>, next |-> 0]

\* the characters of a string up to its closing quote
RECURSIVE parseJsonChars(_, _, _)
parseJsonChars(t, i, acc) ==
    IF i > Len(t) THEN JsonFail
    ELSE IF t[i] = "\"" THEN [ok |-> TRUE, val |-> acc, next |-> i + 1]
    ELSE IF t[i] = "\\"
         THEN IF i + 1 > Len(t) THEN JsonFail
              ELSE IF t[i + 1] \in {"\"", "\\"}
                   THEN parseJsonChars(t, i + 2, Append(acc, t[i + 1]))
              ELSE IF t[i + 1] = "n" THEN parseJsonChars(t, i + 2, Append(acc, "\n"))
              ELSE JsonFail
    ELSE IF t[i] = "\n" THEN JsonFail
    ELSE parseJsonChars(t, i + 1, Append(acc, t[i]))

parseJsonString(t, i) ==
    IF i <= Len(t) /\ t[i] = "\"" THEN parseJsonChars(t, i + 1, <<>>) ELSE JsonFail

\* the strings of an array after its opening bracket or a comma
RECURSIVE parseJsonStrings(_, _, _)
parseJsonStrings(t, i, acc) ==
    LET item == parseJsonString(t, i)
    IN IF ~item.ok \/ item.next > Len(t) THEN JsonFail
       ELSE IF t[item.next] = "]"
            THEN [ok |-> TRUE, val |-> Append(acc, item.val), next |-> item.next + 1]
       ELSE IF t[item.next] = ","
            THEN parseJsonStrings(t, item.next + 1, Append(acc, item.val))
       ELSE JsonFail

\* JSON.parse of the text of a string[]: NULL when it throws
parseStrings(t) ==
    IF Len(t) < 2 \/ t[1] # "[" THEN NULL
    ELSE IF t[2] = "]" THEN (IF Len(t) = 2 THEN Some(<<>>) ELSE NULL)
    ELSE LET r == parseJsonStrings(t, 2, <<>>)
         IN IF r.ok /\ r.next = Len(t) + 1 THEN Some(r.val) ELSE NULL

\* the key and value pairs of an object after its opening brace or a comma;
\* a value is a string or one of true and false
RECURSIVE parseJsonPairs(_, _, _)
parseJsonPairs(t, i, acc) ==
    LET key == parseJsonString(t, i)
        v == key.next + 1
        isBool == v <= Len(t) /\ t[v] \in {"true", "false"}
        str == parseJsonString(t, v)
        pair == [key |-> key.val,
                 text |-> IF isBool THEN <<>> ELSE str.val,
                 bool |-> isBool /\ t[v] = "true"]
        next == IF isBool THEN v + 1 ELSE str.next
    IN IF ~key.ok \/ key.next > Len(t) \/ t[key.next] # ":" THEN JsonFail
       ELSE IF ~isBool /\ ~str.ok THEN JsonFail
       ELSE IF next > Len(t) THEN JsonFail
       ELSE IF t[next] = "}"
            THEN [ok |-> TRUE, val |-> Append(acc, pair), next |-> next + 1]
       ELSE IF t[next] = ","
            THEN parseJsonPairs(t, next + 1, Append(acc, pair))
       ELSE JsonFail

\* the value of a key of a parsed object: of equal keys the last one counts
jsonField(pairs, k) ==
    LET at == {i \in 1..Len(pairs) : pairs[i].key = <<k>>}
    IN IF at = {} THEN [key |-> <<k>>, text |-> <<>>, bool |-> FALSE]
       ELSE pairs[CHOOSE i \in at : \A j \in at : j <= i]

\* the ParamInfo of a parsed object
paramOfPairs(pairs) ==
    [name |-> jsonField(pairs, "name").text,
     type |-> jsonField(pairs, "type").text,
     description |-> jsonField(pairs, "description").text,
     optional |-> jsonField(pairs, "optional").bool]

\* the objects of an array after its opening bracket or a comma
RECURSIVE parseJsonParams(_, _, _)
parseJsonParams(t, i, acc) ==
    LET obj == IF i <= Len(t) /\ t[i] = "{" THEN parseJsonPairs(t, i + 1, <<>>)
               ELSE JsonFail
    IN IF ~obj.ok \/ obj.next > Len(t) THEN JsonFail
       ELSE IF t[obj.next] = "]"
            THEN [ok |-> TRUE, val |-> Append(acc, paramOfPairs(obj.val)),
                  next |-> obj.next + 1]
       ELSE IF t[obj.next] = ","
            THEN parseJsonParams(t, obj.next + 1, Append(acc, paramOfPairs(obj.val)))
       ELSE JsonFail

\* JSON.parse of the text of a ParamInfo[]: NULL when it throws
parseParamsJson(t) ==
    IF Len(t) < 2 \/ t[1] # "[" THEN NULL
    ELSE IF t[2] = "]" THEN (IF Len(t) = 2 THEN Some(<<>>) ELSE NULL)
    ELSE LET r == parseJsonParams(t, 2, <<>>)
         IN IF r.ok /\ r.next = Len(t) + 1 THEN Some(r.val) ELSE NULL

\* safeJsonParse(value, []): the default for an empty text and for a text
\* JSON.parse throws on; parsed is what JSON.parse returns
safeJsonParse(value, parsed) ==
    IF value = <<>> THEN <<>>
    ELSE IF parsed = NULL THEN <<>>
    ELSE parsed[1]

\* ------------------------------------------------------------------ store

\* new SQL.Database() followed by the schema: three empty tables.
\* lastId is last_insert_rowid(); full is history: the build's for loop has
\* run over every file of the file set.
NewDatabase == [docs |-> <<>>, classes |-> <<>>, members |-> <<>>,
                lastId |-> 0, full |-> FALSE]

\* INSERT INTO docs: search_text is the lowercased title, a space, the content
insertDoc(st, chunk, filePath) ==
    LET id == Len(st.docs) + 1
        row == [id |-> id,
                package |-> detectPackage(filePath),
                category |-> detectCategory(filePath),
                title |-> chunk.title,
                content |-> chunk.content,
                file_path |-> filePath,
                search_text |-> toLowerCase(chunk.title \o <<" ">> \o chunk.content)]
    IN [st EXCEPT !.docs = Append(@, row), !.lastId = id]

\* the first run() of insertClass: INSERT INTO classes
insertClassRow(st, cls, filePath) ==
    LET id == Len(st.classes) + 1
        row == [id |-> id,
                package |-> detectPackageFromPath(filePath),
                name |-> cls.name,
                type |-> cls.type,
                description |-> cls.description,
                implements_clause |-> stringifyStrings(cls.implementsClause),
                decorators |-> stringifyStrings(cls.decorators),
                file_path |-> filePath,
                search_text |-> toLowerCase(cls.name \o <<" ">> \o cls.description
                                            \o <<" ">> \o joinSp(cls.decorators))]
    IN [st EXCEPT !.classes = Append(@, row), !.lastId = id]

\* mutant: the owner id is looked up by the declaration's name
getIdOfFirstSameName(st) ==
    LET last == st.classes[Len(st.classes)]
        same == {i \in 1..Len(st.classes) : st.classes[i].name = last.name}
    IN st.classes[CHOOSE i \in same : \A k \in same : i <= k].id

getLastInsertId(st) == st.lastId

\* one run() of the member loop of insertClass: INSERT INTO members
insertMemberRow(st, classId, member) ==
    LET id == Len(st.members) + 1
        row == [id |-> id,
                class_id |-> classId,
                name |-> member.name,
                type |-> member.type,
                signature |-> member.signature,
                description |-> member.description,
                params |-> stringifyParams(member.params),
                decorators |-> stringifyStrings(member.decorators),
                search_text |-> toLowerCase(member.name \o <<" ">> \o member.signature
                                            \o <<" ">> \o member.description
                                            \o <<" ">> \o joinSp(member.decorators))]
    IN [st EXCEPT !.members = Append(@, row), !.lastId = id]

\* ------------------------------------------------------------------ build

\* mutant: the guide parser runs before the reference parser
FileStepsGuideFirst(file) ==
    LET StepsOfClass(c) ==
            <<[op |-> "insertClassRow", c |-> c, j |-> 0]>>
            \o [j \in 1..Len(file.classes[c].members) |->
                    [op |-> "insertMemberRow", c |-> c, j |-> j]]
            \o <<[op |-> "countClass", c |-> c, j |-> 0]>>
        RECURSIVE ClassStepsFrom(_)
        ClassStepsFrom(c) ==
            IF c > Len(file.classes) THEN <<>>
            ELSE StepsOfClass(c) \o ClassStepsFrom(c + 1)
        RECURSIVE DocStepsFrom(_)
        DocStepsFrom(k) ==
            IF k > Len(file.chunks) THEN <<>>
            ELSE <<[op |-> "insertDoc", c |-> 0, j |-> k],
                   [op |-> "countDoc", c |-> 0, j |-> k]>> \o DocStepsFrom(k + 1)
    IN <<[op |-> "readFileSync", c |-> 0, j |-> 0]>>
       \o <<[op |-> "parseMarkdown", c |-> 0, j |-> 0]>>
       \o DocStepsFrom(1)
       \o (IF isTypedocFile(file.path)
           THEN <<[op |-> "parseTypedocMarkdown", c |-> 0, j |-> 0]>> \o ClassStepsFrom(1)
           ELSE <<>>)

\* The work of one iteration of the for loop of buildIndex over a file record
\* [path, classes, chunks], in program order. classes is what
\* parseTypedocMarkdown returns for the file and chunks what parseMarkdown
\* returns. c is a class index, j a member or chunk index.
FileSteps(file) ==
    LET ClassSteps(c) ==
            <<[op |-> "insertClassRow", c |-> c, j |-> 0]>>
            \o [j \in 1..Len(file.classes[c].members) |->
                    [op |-> "insertMemberRow", c |-> c, j |-> j]]
            \o <<[op |-> "countClass", c |-> c, j |-> 0]>>
        RECURSIVE AllClassSteps(_)
        AllClassSteps(c) ==
            IF c > Len(file.classes) THEN <<>>
            ELSE ClassSteps(c) \o AllClassSteps(c + 1)
        RECURSIVE AllDocSteps(_)
        AllDocSteps(k) ==
            IF k > Len(file.chunks) THEN <<>>
            ELSE <<[op |-> "insertDoc", c |-> 0, j |-> k],
                   [op |-> "countDoc", c |-> 0, j |-> k]>> \o AllDocSteps(k + 1)
    IN <<[op |-> "readFileSync", c |-> 0, j |-> 0]>>
       \o (IF isTypedocFile(file.path)
           THEN <<[op |-> "parseTypedocMarkdown", c |-> 0, j |-> 0]>> \o AllClassSteps(1)
           ELSE <<>>)
       \o <<[op |-> "parseMarkdown", c |-> 0, j |-> 0]>>
       \o AllDocSteps(1)

\* the steps that can throw: file reads, the parsers and every run()
CanThrow(step) ==
    step.op \in {"readFileSync", "parseTypedocMarkdown", "insertClassRow",
                 "insertMemberRow", "parseMarkdown", "insertDoc"}

\* the effect of one step that does not throw on
\* acc = [st, classId, docCount, classCount, memberCount]
ApplyStep(acc, file, step) ==
    CASE step.op = "insertClassRow" ->
            LET st2 == insertClassRow(acc.st, file.classes[step.c], file.path)
            IN [acc EXCEPT !.st = st2, !.classId = getLastInsertId(st2)]
      [] step.op = "insertMemberRow" ->
            [acc EXCEPT !.st = insertMemberRow(acc.st, acc.classId,
                                               file.classes[step.c].members[step.j])]
      [] step.op = "countClass" ->
            [acc EXCEPT !.classCount = @ + 1,
                        !.memberCount = @ + Len(file.classes[step.c].members)]
      [] step.op = "insertDoc" ->
            [acc EXCEPT !.st = insertDoc(acc.st, file.chunks[step.j], file.path)]
      [] step.op = "countDoc" ->
            [acc EXCEPT !.docCount = @ + 1]
      [] OTHER -> acc

RECURSIVE ApplySteps(_, _, _, _)
ApplySteps(acc, file, steps, n) ==
    IF n = 0 THEN acc
    ELSE ApplyStep(ApplySteps(acc, file, steps, n - 1), file, steps[n])

\* One iteration of the for loop: the try block runs the steps of the file up
\* to the step that throws (failAt; 0: none throws), the catch block logs.
processFile(acc, file, failAt) ==
    LET steps == FileSteps(file)
    IN ApplySteps(acc, file, steps, IF failAt = 0 THEN Len(steps) ELSE failAt - 1)

\* ------------------------------------------------------------------ inputs

\* the largest number of files getDocsFiles finds
MaxFiles == 3

GuidePath == <<"galachain-sdk", "/", "docs", "/", "x", ".md">>
ApiPath == <<"galachain-sdk", "/", "docs", "/", "chain-api", "-docs", "/", "x", ".md">>
ChaincodePath == <<"galachain-sdk", "/", "docs", "/", "chaincode", "-docs", "/", "x", ".md">>
ReadmePath == <<"galachain-sdk", "/", "README", ".md">>

\* a parameter taken from a bullet line `- a ("b\)`: its type holds a quote
\* and a backslash
ParamA == [name |-> <<"a">>, type |-> <<"\"", "b", "\\">>, description |-> <<>>,
           optional |-> FALSE]
ParamB == [name |-> <<"b">>, type |-> <<"A">>, description |-> <<"f", "\n">>,
           optional |-> TRUE]

MemberB == [name |-> <<"b">>, type |-> "method", signature |-> <<"b", "(", ")">>,
            description |-> <<>>, decorators |-> <<>>, params |-> <<ParamA, ParamB>>]
MemberA == [name |-> <<"a">>, type |-> "property", signature |-> <<>>,
            description |-> <<"f", "o">>, decorators |-> <<>>, params |-> <<>>]

\* The files of the cloned repository with what the two parsers return for
\* their contents: a guide (for its heading A parseTypedocMarkdown would
\* return a class), two reference files that both declare the name Fo, and
\* the README.
RepoPool ==
    << [path |-> GuidePath,
        classes |-> << [name |-> <<"A">>, type |-> "class",
                        description |-> <<"b">>, decorators |-> <<>>,
                        implementsClause |-> <<>>,
                        members |-> <<MemberA>>] >>,
        chunks |-> << [title |-> <<"A">>, content |-> <<"b">>],
                      [title |-> <<"b">>, content |-> <<"a", " ", "b">>] >>],
       [path |-> ApiPath,
        classes |-> << [name |-> <<"F", "o">>, type |-> "class",
                        description |-> <<"a">>, decorators |-> <<>>,
                        implementsClause |-> << <<"A">>, <<"B", "\"">> >>,
                        members |-> <<MemberB>>] >>,
        chunks |-> << [title |-> <<"F", "o">>, content |-> <<"a">>] >>],
       [path |-> ChaincodePath,
        classes |-> << [name |-> <<"F", "o">>, type |-> "interface",
                        description |-> <<>>, decorators |-> << <<"b">> >>,
                        implementsClause |-> <<>>,
                        members |-> <<MemberB, MemberA>>],
                       [name |-> <<"A">>, type |-> "class",
                        description |-> <<"a", "b">>, decorators |-> <<>>,
                        implementsClause |-> << <<"F", "o">> >>,
                        members |-> <<>>] >>,
        chunks |-> <<>>],
       [path |-> ReadmePath, classes |-> <<>>,
        chunks |-> << [title |-> <<"a", "b">>, content |-> <<"A">>] >>] >>

\* a store file left by an earlier run: the complete build of the guide alone
PriorStore ==
    [processFile([st |-> NewDatabase, classId |-> 0, docCount |-> 0,
                  classCount |-> 0, memberCount |-> 0], RepoPool[1], 0).st
        EXCEPT !.full = TRUE]

\* ------------------------------------------------------------------ wrapper

\* openDatabase(filePath, readonly) on the file `file`; initOk: initSqlJs()
\* resolves; readOk: readFileSync / mkdirSync do not throw.
\* The result is what the wrapper's SQL, db and dbPath become and whether
\* the call rejected.
openDatabase(file, readonly, initOk, readOk, cur) ==
    IF ~initOk
    THEN [cur EXCEPT !.threw = TRUE, !.err = "sql.js failed to load"]
    ELSE LET c1 == [cur EXCEPT !.SQL = TRUE, !.dbPath = "DB_PATH"]
         IN IF file # NULL
            THEN IF readOk
                 THEN [c1 EXCEPT !.db = Some(file[1])]
                 ELSE [c1 EXCEPT !.threw = TRUE, !.err = "EACCES"]
            ELSE IF ~readonly
                 THEN IF readOk
                      THEN [c1 EXCEPT !.db = Some(NewDatabase)]
                      ELSE [c1 EXCEPT !.threw = TRUE, !.err = "EACCES"]
                 ELSE [c1 EXCEPT !.threw = TRUE, !.err = "Database not found"]

\* the wrapper's module state as the record openDatabase works on
Wrapper == [SQL |-> SQL, db |-> db, dbPath |-> dbPath, threw |-> FALSE, err |-> ""]

\* reset(): close the open handle, db = new SQL.Database()
reset(cur) ==
    IF ~cur.SQL
    THEN [cur EXCEPT !.threw = TRUE, !.err = "SQL.js not initialized"]
    ELSE [cur EXCEPT !.db = Some(NewDatabase)]

\* save(): fs.writeFileSync(dbPath, db.export()); the result is the file
save(handle, file, writeOk) ==
    IF handle = NULL THEN [threw |-> TRUE, err |-> "Database not open", file |-> file]
    ELSE IF ~writeOk THEN [threw |-> TRUE, err |-> "ENOSPC", file |-> file]
    ELSE [threw |-> FALSE, err |-> "", file |-> Some(handle[1])]

\* ------------------------------------------------------------------ fetch

\* mutant: the clone is wrapped in the same try/catch as the pull
fetchDocsCatchesClone(exists, gitOk) ==
    IF exists
    THEN [threw |-> FALSE, err |-> "", exists |-> TRUE,
          failed |-> IF gitOk THEN "none" ELSE "pull"]
    ELSE [threw |-> FALSE, err |-> "", exists |-> gitOk,
          failed |-> IF gitOk THEN "none" ELSE "clone"]

\* fetchDocs(): pull when REPO_DIR exists, a failing pull is caught and the
\* existing files are used; otherwise clone, a failing clone rejects.
fetchDocs(exists, gitOk) ==
    IF exists
    THEN [threw |-> FALSE, err |-> "", exists |-> TRUE,
          failed |-> IF gitOk THEN "none" ELSE "pull"]
    ELSE IF gitOk
         THEN [threw |-> FALSE, err |-> "", exists |-> TRUE, failed |-> "none"]
         ELSE [threw |-> TRUE, err |-> "clone failed", exists |-> FALSE,
               failed |-> "clone"]

\* ------------------------------------------------------------------ queries

\* SQLite's LIKE: % matches any run of characters, _ any one character, a
\* letter matches itself in either case
RECURSIVE Like(_, _)
Like(pattern, text) ==
    IF pattern = <<>> THEN text = <<>>
    ELSE IF Head(pattern) = "%"
         THEN Like(Tail(pattern), text) \/ (text # <<>> /\ Like(pattern, Tail(text)))
         ELSE /\ text # <<>>
              /\ (Head(pattern) = "_" \/ LowerChar(Head(pattern)) = LowerChar(Head(text)))
              /\ Like(Tail(pattern), Tail(text))

\* WHERE search_text LIKE ? AND ... with the parameters `%${t}%`
LikeAll(searchText, terms) ==
    \A k \in 1..Len(terms) : Like(<<"%">> \o terms[k] \o <<"%">>, searchText)

\* LIMIT ?: the first n rows of the scan; a negative n does not limit
SqlLimit(rows, n) ==
    IF n < 0 THEN rows ELSE SubSeq(rows, 1, Min(n, Len(rows)))

ScoreStart == 100
WordScore == 20
PartialScore == 10
FirstWordScore == 30
ShortScore == 5
ShortLen == 100
ShorterLen == 50

\* \b at the 1-based position p of s (between s[p-1] and s[p])
WordBoundary(s, p) ==
    LET isW(k) == k >= 1 /\ k <= Len(s) /\ IsWordChar(s[k])
    IN isW(p - 1) # isW(p)

\* new RegExp(`\\b${escapeRegex(term)}\\b`, 'i').test(text)
wordRegexTest(text, term) ==
    \E i \in 1..(Len(text) + 1) :
        /\ MatchAt(toLowerCase(text), toLowerCase(term), i)
        /\ WordBoundary(text, i)
        /\ WordBoundary(text, i + Len(term))

\* the score one term takes off
TermScore(text, term) ==
    LET firstWord == toLowerCase(splitWs(text)[1])
    IN (IF wordRegexTest(text, term) THEN WordScore
        ELSE IF includes(toLowerCase(text), term) THEN PartialScore
        ELSE 0)
       + (IF firstWord = term \/ includes(firstWord, term) THEN FirstWordScore ELSE 0)

RECURSIVE SumTermScores(_, _)
SumTermScores(text, terms) ==
    IF terms = <<>> THEN 0
    ELSE TermScore(text, Head(terms)) + SumTermScores(text, Tail(terms))

calculateRelevance(text, terms) ==
    Max(0, ScoreStart - SumTermScores(text, terms)
              - (IF Len(text) < ShortLen THEN ShortScore ELSE 0)
              - (IF Len(text) < ShorterLen THEN ShortScore ELSE 0))

\* results.sort((a, b) => a.rank - b.rank): a stable sort
RECURSIVE InsertByRank(_, _)
InsertByRank(sorted, x) ==
    IF sorted = <<>> THEN <<x>>
    ELSE IF sorted[Len(sorted)].rank <= x.rank THEN Append(sorted, x)
    ELSE Append(InsertByRank(SubSeq(sorted, 1, Len(sorted) - 1), x), sorted[Len(sorted)])

RECURSIVE sortByRank(_)
sortByRank(rs) ==
    IF rs = <<>> THEN <<>>
    ELSE InsertByRank(sortByRank(SubSeq(rs, 1, Len(rs) - 1)), rs[Len(rs)])

\* mutant: the empty pieces of the split are kept
searchTermsNoFilter(query) == splitWs(toLowerCase(query))

\* query.toLowerCase().split(/\s+/).filter((t) => t.length > 0)
searchTerms(query) ==
    LET nonEmpty(t) == Len(t) > 0
    IN SelectSeq(splitWs(toLowerCase(query)), nonEmpty)

\* the class row a member row joins to (JOIN classes c ON m.class_id = c.id)
ClassOf(st, m) == SelectSeq(st.classes, LAMBDA c : c.id = m.class_id)

\* the docs block of searchDocs; all() throws on a null handle and the block's
\* catch swallows it
searchDocRows(handle, terms, pkg, type, limit) ==
    IF ~(type = "all" \/ type = "guide") \/ handle = NULL THEN <<>>
    ELSE LET hit(row) == /\ LikeAll(row.search_text, terms)
                         /\ (pkg = "all" \/ row.package = pkg)
             rows == SqlLimit(SelectSeq(handle[1].docs, hit), limit)
         IN [i \in 1..Len(rows) |->
                [id |-> rows[i].id, title |-> rows[i].title,
                 package |-> rows[i].package, category |-> rows[i].category,
                 type |-> "doc",
                 rank |-> calculateRelevance(rows[i].title \o <<" ">> \o rows[i].content,
                                             terms)]]

\* mutant: the filter 'class' keeps the declarations of kind 'class' only
searchClassRowsOfKind(handle, terms, pkg, type, limit) ==
    IF ~(type = "all" \/ type = "class" \/ type = "interface") \/ handle = NULL THEN <<>>
    ELSE LET hit(row) == /\ LikeAll(row.search_text, terms)
                         /\ (pkg = "all" \/ row.package = pkg)
                         /\ (type = "all" \/ row.type = type)
             rows == SqlLimit(SelectSeq(handle[1].classes, hit), limit)
         IN [i \in 1..Len(rows) |->
                [id |-> rows[i].id, title |-> rows[i].name,
                 package |-> rows[i].package, category |-> rows[i].type,
                 type |-> "class",
                 rank |-> calculateRelevance(rows[i].name \o <<" ">> \o rows[i].description,
                                             terms)]]

\* the classes block of searchDocs
searchClassRows(handle, terms, pkg, type, limit) ==
    IF ~(type = "all" \/ type = "class" \/ type = "interface") \/ handle = NULL THEN <<>>
    ELSE LET hit(row) == /\ LikeAll(row.search_text, terms)
                         /\ (pkg = "all" \/ row.package = pkg)
                         /\ (type = "all" \/ type = "class" \/ row.type = type)
             rows == SqlLimit(SelectSeq(handle[1].classes, hit), limit)
         IN [i \in 1..Len(rows) |->
                [id |-> rows[i].id, title |-> rows[i].name,
                 package |-> rows[i].package, category |-> rows[i].type,
                 type |-> "class",
                 rank |-> calculateRelevance(rows[i].name \o <<" ">> \o rows[i].description,
                                             terms)]]

\* mutant: the members block runs for every type filter
searchMemberRowsAnyType(handle, terms, pkg, type, limit) ==
    IF handle = NULL THEN <<>>
    ELSE LET st == handle[1]
             hit(m) == /\ ClassOf(st, m) # <<>>
                       /\ LikeAll(m.search_text, terms)
                       /\ (pkg = "all" \/ ClassOf(st, m)[1].package = pkg)
             rows == SqlLimit(SelectSeq(st.members, hit), limit)
         IN [i \in 1..Len(rows) |->
                [id |-> rows[i].id,
                 title |-> ClassOf(st, rows[i])[1].name \o <<".">> \o rows[i].name,
                 package |-> ClassOf(st, rows[i])[1].package,
                 category |-> rows[i].type,
                 type |-> "method",
                 rank |-> calculateRelevance(rows[i].name \o <<" ">> \o rows[i].description
                                             \o <<" ">> \o rows[i].signature, terms)]]

\* the members block of searchDocs
searchMemberRows(handle, terms, pkg, type, limit) ==
    IF ~(type = "all" \/ type = "method") \/ handle = NULL THEN <<>>
    ELSE LET st == handle[1]
             hit(m) == /\ ClassOf(st, m) # <<>>
                       /\ LikeAll(m.search_text, terms)
                       /\ (pkg = "all" \/ ClassOf(st, m)[1].package = pkg)
             rows == SqlLimit(SelectSeq(st.members, hit), limit)
         IN [i \in 1..Len(rows) |->
                [id |-> rows[i].id,
                 title |-> ClassOf(st, rows[i])[1].name \o <<".">> \o rows[i].name,
                 package |-> ClassOf(st, rows[i])[1].package,
                 category |-> rows[i].type,
                 type |-> "method",
                 rank |-> calculateRelevance(rows[i].name \o <<" ">> \o rows[i].description
                                             \o <<" ">> \o rows[i].signature, terms)]]

\* results.sort(...).slice(0, limit), for the limit >= 0 the tool passes
sortAndSlice(results, limit) ==
    SubSeq(sortByRank(results), 1, Min(limit, Len(results)))

\* searchDocs reaches one of its three all() calls
searchQueries(query, type) ==
    /\ Len(searchTerms(query)) > 0
    /\ type \in {"all", "guide", "class", "interface", "method"}

searchDocs(handle, query, pkg, type, limit) ==
    LET terms == searchTerms(query)
    IN IF Len(terms) = 0 THEN <<>>
       ELSE sortAndSlice(searchDocRows(handle, terms, pkg, type, limit)
                         \o searchClassRows(handle, terms, pkg, type, limit)
                         \o searchMemberRows(handle, terms, pkg, type, limit), limit)

\* `pkg || null` of getClass and getMethod: undefined and '' become null
OrNull(v) == IF v # NULL /\ v[1] = "" THEN NULL ELSE v

\* mutant: the members are selected by the name of their owner
getClassByOwnerName(st, name, pkg) ==
    LET p == OrNull(pkg)
        hit(c) == c.name = name /\ (p = NULL \/ c.package = p[1])
        rows == SelectSeq(st.classes, hit)
        members == SelectSeq(st.members,
                             LAMBDA m : ClassOf(st, m) # <<>> /\ ClassOf(st, m)[1].name = name)
    IN IF rows = <<>> THEN NULL
       ELSE Some([cls |-> rows[1],
                  implementsClause |-> safeJsonParse(rows[1].implements_clause,
                                                     parseStrings(rows[1].implements_clause)),
                  decorators |-> safeJsonParse(rows[1].decorators,
                                               parseStrings(rows[1].decorators)),
                  members |-> [j \in 1..Len(members) |->
                      [id |-> members[j].id, name |-> members[j].name,
                       type |-> members[j].type, signature |-> members[j].signature,
                       description |-> members[j].description,
                       params |-> safeJsonParse(members[j].params,
                                                parseParamsJson(members[j].params)),
                       decorators |-> safeJsonParse(members[j].decorators,
                                                    parseStrings(members[j].decorators))]]])

\* getClass(name, pkg): get() is the first row of the scan, with its members
getClass(st, name, pkg) ==
    LET p == OrNull(pkg)
        hit(c) == c.name = name /\ (p = NULL \/ c.package = p[1])
        rows == SelectSeq(st.classes, hit)
        members == IF rows = <<>> THEN <<>>
                   ELSE SelectSeq(st.members, LAMBDA m : m.class_id = rows[1].id)
    IN IF rows = <<>> THEN NULL
       ELSE Some([cls |-> rows[1],
                  implementsClause |-> safeJsonParse(rows[1].implements_clause,
                                                     parseStrings(rows[1].implements_clause)),
                  decorators |-> safeJsonParse(rows[1].decorators,
                                               parseStrings(rows[1].decorators)),
                  members |-> [j \in 1..Len(members) |->
                      [id |-> members[j].id, name |-> members[j].name,
                       type |-> members[j].type, signature |-> members[j].signature,
                       description |-> members[j].description,
                       params |-> safeJsonParse(members[j].params,
                                                parseParamsJson(members[j].params)),
                       decorators |-> safeJsonParse(members[j].decorators,
                                                    parseStrings(members[j].decorators))]]])

\* the 1-based positions of the dots of a name
DotsOf(name) == {i \in 1..Len(name) : name[i] = "."}

\* methodName.split('.', 2): the text before the first dot and the text
\* between the first dot and the second
splitDot2(name) ==
    LET d1 == CHOOSE i \in DotsOf(name) : \A k \in DotsOf(name) : i <= k
        later == {k \in DotsOf(name) : k > d1}
        d2 == IF later = {} THEN Len(name) + 1
              ELSE CHOOSE i \in later : \A k \in later : i <= k
    IN <<SubSeq(name, 1, d1 - 1), SubSeq(name, d1 + 1, d2 - 1)>>

\* mutant: the owner's name is not compared
getMethodAnyOwner(st, methodName, pkg) ==
    LET p == OrNull(pkg)
        qualified == DotsOf(methodName) # {}
        mName == IF qualified THEN splitDot2(methodName)[2] ELSE methodName
        hit(m) == /\ ClassOf(st, m) # <<>>
                  /\ m.name = mName
                  /\ (p = NULL \/ ClassOf(st, m)[1].package = p[1])
        rows == SelectSeq(st.members, hit)
    IN [i \in 1..Len(rows) |->
            [id |-> rows[i].id, name |-> rows[i].name, class_id |-> rows[i].class_id,
             className |-> ClassOf(st, rows[i])[1].name,
             package |-> ClassOf(st, rows[i])[1].package]]

getMethod(st, methodName, pkg) ==
    LET p == OrNull(pkg)
        qualified == DotsOf(methodName) # {}
        className == IF qualified THEN Some(splitDot2(methodName)[1]) ELSE NULL
        mName == IF qualified THEN splitDot2(methodName)[2] ELSE methodName
        hit(m) == /\ ClassOf(st, m) # <<>>
                  /\ m.name = mName
                  /\ (className = NULL \/ ClassOf(st, m)[1].name = className[1])
                  /\ (p = NULL \/ ClassOf(st, m)[1].package = p[1])
        rows == SelectSeq(st.members, hit)
    IN [i \in 1..Len(rows) |->
            [id |-> rows[i].id, name |-> rows[i].name, class_id |-> rows[i].class_id,
             className |-> ClassOf(st, rows[i])[1].name,
             package |-> ClassOf(st, rows[i])[1].package]]

\* the byte order of the package and type texts (SQLite's BINARY collation)
PackageOrder == <<"chain-api", "chain-cli", "chain-client", "chain-test",
                  "chaincode", "guides", "unknown">>
TypeOrder == <<"class", "enum", "function", "interface", "type">>
CharOrder == <<"\n", " ", "%", "(", ")", ".", "0", "A", "B", "F", "_", "a", "b",
               "f", "o">>

IndexIn(order, x) == CHOOSE i \in 1..Len(order) : order[i] = x

RECURSIVE TextLess(_, _)
TextLess(a, b) ==
    IF b = <<>> THEN FALSE
    ELSE IF a = <<>> THEN TRUE
    ELSE IF Head(a) # Head(b) THEN IndexIn(CharOrder, Head(a)) < IndexIn(CharOrder, Head(b))
    ELSE TextLess(Tail(a), Tail(b))

\* ORDER BY package, type, name
ModuleLess(a, b) ==
    IF a.package # b.package
    THEN IndexIn(PackageOrder, a.package) < IndexIn(PackageOrder, b.package)
    ELSE IF a.type # b.type
         THEN IndexIn(TypeOrder, a.type) < IndexIn(TypeOrder, b.type)
         ELSE TextLess(a.name, b.name)

RECURSIVE InsertModule(_, _)
InsertModule(sorted, x) ==
    IF sorted = <<>> THEN <<x>>
    ELSE IF ~ModuleLess(x, sorted[Len(sorted)]) THEN Append(sorted, x)
    ELSE Append(InsertModule(SubSeq(sorted, 1, Len(sorted) - 1), x), sorted[Len(sorted)])

RECURSIVE orderModules(_)
orderModules(rs) ==
    IF rs = <<>> THEN <<>>
    ELSE InsertModule(orderModules(SubSeq(rs, 1, Len(rs) - 1)), rs[Len(rs)])

\* mutant: the rows come in the order of the scan
listModulesUnordered(st, pkg, type) ==
    LET hit(c) == (pkg = "all" \/ c.package = pkg) /\ (type = "all" \/ c.type = type)
        rows == SelectSeq(st.classes, hit)
    IN [i \in 1..Len(rows) |->
            [name |-> rows[i].name, package |-> rows[i].package,
             type |-> rows[i].type, description |-> rows[i].description]]

listModules(st, pkg, type) ==
    LET hit(c) == (pkg = "all" \/ c.package = pkg) /\ (type = "all" \/ c.type = type)
        rows == orderModules(SelectSeq(st.classes, hit))
    IN [i \in 1..Len(rows) |->
            [name |-> rows[i].name, package |-> rows[i].package,
             type |-> rows[i].type, description |-> rows[i].description]]

\* ------------------------------------------------------------------ tools

DefaultLimit == 5
MinLimit == 1
MaxLimit == 20

\* a destructuring default: `x = d` takes d when the argument is undefined
OrDefault(v, d) == IF v = NULL THEN d ELSE v[1]

\* mutant: the limit is raised to 1 and not capped
clampLimitNoMax(limit) == Max(limit, MinLimit)

\* Math.min(Math.max(limit, 1), 20)
clampLimit(limit) == Min(Max(limit, MinLimit), MaxLimit)

\* !s || s.trim().length === 0 for an optional text
IsBlank(v) == v = NULL \/ Len(trim(v[1])) = 0

\* The response of a tool. status: the index status the tool read; kind:
\* which message it returned; queried: it ran a query on the store handle;
\* error: the failure reason its text carries.
Response(tool, status, kind, queried, error, args, limit, results) ==
    [tool |-> tool, status |-> status, kind |-> kind, queried |-> queried,
     error |-> error, args |-> args, limit |-> limit, results |-> results]

\* mutant: the tools check the status for 'error' only
StatusResponseErrorOnly(tool, status, error, args) ==
    IF status = "error"
    THEN Some(Response(tool, status, "error", FALSE, error, args, 0, <<>>))
    ELSE NULL

\* the two status checks every tool starts with
StatusResponse(tool, status, error, args) ==
    IF status = "building"
    THEN Some(Response(tool, status, "building", FALSE, NULL, args, 0, <<>>))
    ELSE IF status = "error"
         THEN Some(Response(tool, status, "error", FALSE, error, args, 0, <<>>))
         ELSE NULL

\* mutant: the request handler has no catch, the exception leaves it
Thrown(tool, status, queried, message, args) ==
    Response(tool, status, "thrown", queried, Some(message), args, 0, <<>>)

\* an exception that leaves the tool is caught by the request handler:
\* text `Error: ${message}`
Caught(tool, status, queried, message, args) ==
    Response(tool, status, "caught", queried, Some(message), args, 0, <<>>)

searchGalachainDocs(status, error, handle, args) ==
    IF StatusResponse("search", status, error, args) # NULL
    THEN StatusResponse("search", status, error, args)[1]
    ELSE LET pkg == OrDefault(args.package, "all")
             type == OrDefault(args.type, "all")
             limit == clampLimit(OrDefault(args.limit, DefaultLimit))
         IN IF IsBlank(args.query)
            THEN Response("search", status, "invalid", FALSE, NULL, args, limit, <<>>)
            ELSE LET results == searchDocs(handle, args.query[1], pkg, type, limit)
                 IN Response("search", status,
                             IF results = <<>> THEN "notFound" ELSE "found",
                             searchQueries(args.query[1], type), NULL, args, limit,
                             results)

getGalachainClass(status, error, handle, args) ==
    IF StatusResponse("getClass", status, error, args) # NULL
    THEN StatusResponse("getClass", status, error, args)[1]
    ELSE IF IsBlank(args.name)
         THEN Response("getClass", status, "invalid", FALSE, NULL, args, 0, <<>>)
         ELSE IF handle = NULL
              THEN Caught("getClass", status, TRUE, "Database not open", args)
              ELSE LET cls == getClass(handle[1], args.name[1], args.package)
                   IN Response("getClass", status,
                               IF cls = NULL THEN "notFound" ELSE "found",
                               TRUE, NULL, args, 0, cls)

getGalachainMethod(status, error, handle, args) ==
    IF StatusResponse("getMethod", status, error, args) # NULL
    THEN StatusResponse("getMethod", status, error, args)[1]
    ELSE IF IsBlank(args.name)
         THEN Response("getMethod", status, "invalid", FALSE, NULL, args, 0, <<>>)
         ELSE IF handle = NULL
              THEN Caught("getMethod", status, TRUE, "Database not open", args)
              ELSE LET results == getMethod(handle[1], args.name[1], args.package)
                   IN Response("getMethod", status,
                               IF results = <<>> THEN "notFound" ELSE "found",
                               TRUE, NULL, args, 0, results)

listGalachainModules(status, error, handle, args) ==
    IF StatusResponse("listModules", status, error, args) # NULL
    THEN StatusResponse("listModules", status, error, args)[1]
    ELSE IF handle = NULL
         THEN Caught("listModules", status, TRUE, "Database not open", args)
         ELSE LET results == listModules(handle[1], OrDefault(args.package, "all"),
                                         OrDefault(args.type, "all"))
              IN Response("listModules", status,
                          IF results = <<>> THEN "notFound" ELSE "found",
                          TRUE, NULL, args, 0, results)

\* the arguments of a tool call
Args(query, name, package, type, limit) ==
    [query |-> query, name |-> name, package |-> package, type |-> type,
     limit |-> limit]

NoArgs == Args(NULL, NULL, NULL, NULL, NULL)

\* ------------------------------------------------------------------ main

\* no tool request has been handled yet
NoResp == Response("none", "none", "none", FALSE, NULL, NoArgs, 0, <<>>)

Init ==
    /\ argvRebuild \in BOOLEAN
    /\ disk \in {NULL, Some(PriorStore)}
    /\ repoExists \in BOOLEAN
    /\ pc = "start"
    /\ exitCode = NULL
    /\ indexStatus = "ready"
    /\ indexError = NULL
    /\ SQL = FALSE
    /\ db = NULL
    /\ dbPath = ""
    /\ bpc = "idle"
    /\ buildError = ""
    /\ files = <<>>
    /\ fileIdx = 1
    /\ docCount = 0
    /\ classCount = 0
    /\ memberCount = 0
    /\ failedFiles = {}
    /\ diskAtStart = NULL
    /\ dbAtStart = NULL
    /\ gitFailed = "none"
    /\ req = NULL
    /\ resp = NoResp
    /\ parserIn = <<>>
    /\ parserOut = <<>>

\* buildIndex(DB_PATH) is called: it runs up to the await of fetchDocs()
CallBuildIndex ==
    /\ bpc' = "fetchDocs"
    /\ diskAtStart' = disk
    /\ dbAtStart' = db

\* mutant: main() starts the background build and leaves the status 'ready'
MainStartKeepsReady ==
    /\ pc = "start"
    /\ IF argvRebuild
       THEN /\ CallBuildIndex
            /\ pc' = "awaitRebuild"
       ELSE IF disk = NULL
            THEN /\ CallBuildIndex
                 /\ pc' = "serving"
            ELSE /\ pc' = "awaitOpen"
                 /\ UNCHANGED <<bpc, diskAtStart, dbAtStart>>
                 /\ UNCHANGED <<parserIn, parserOut>>
    /\ UNCHANGED <<argvRebuild, exitCode, indexStatus, indexError, SQL, db, dbPath,
                   disk, repoExists, buildError, files, fileIdx, docCount,
                   classCount, memberCount, failedFiles, gitFailed, req, resp>>
    /\ UNCHANGED <<parserIn, parserOut>>

\* main() from its start to its first await
MainStart ==
    /\ pc = "start"
    /\ IF argvRebuild
       THEN /\ CallBuildIndex
            /\ pc' = "awaitRebuild"
            /\ UNCHANGED indexStatus
       ELSE IF disk = NULL
            THEN /\ indexStatus' = "building"
                 /\ CallBuildIndex
                 /\ pc' = "serving"
            ELSE /\ pc' = "awaitOpen"
                 /\ UNCHANGED <<indexStatus, bpc, diskAtStart, dbAtStart>>
                 /\ UNCHANGED <<parserIn, parserOut>>
    /\ UNCHANGED <<argvRebuild, exitCode, indexError, SQL, db, dbPath, disk,
                   repoExists, buildError, files, fileIdx, docCount, classCount,
                   memberCount, failedFiles, gitFailed, req, resp>>
    /\ UNCHANGED <<parserIn, parserOut>>

\* main(): the index exists; await openDatabase(DB_PATH, true), then connect
MainOpenExisting ==
    /\ pc = "awaitOpen"
    /\ \E initOk \in BOOLEAN, readOk \in BOOLEAN :
          LET r == openDatabase(disk, TRUE, initOk, readOk, Wrapper)
          IN /\ SQL' = r.SQL
             /\ db' = r.db
             /\ dbPath' = r.dbPath
             /\ IF r.threw
                THEN /\ indexStatus' = "error"
                     /\ indexError' = Some(r.err)
                ELSE /\ indexStatus' = "ready"
                     /\ UNCHANGED indexError
    /\ pc' = "serving"
    /\ UNCHANGED <<argvRebuild, exitCode, disk, repoExists, bpc, buildError, files,
                   fileIdx, docCount, classCount, memberCount, failedFiles,
                   diskAtStart, dbAtStart, gitFailed, req, resp>>
    /\ UNCHANGED <<parserIn, parserOut>>

\* main() with --rebuild: the awaited build settles, process.exit(0 or 1)
MainRebuildExit ==
    /\ pc = "awaitRebuild"
    /\ bpc \in {"resolved", "rejected"}
    /\ pc' = "exited"
    /\ exitCode' = Some(IF bpc = "resolved" THEN 0 ELSE 1)
    /\ UNCHANGED <<argvRebuild, indexStatus, indexError, SQL, db, dbPath, disk,
                   repoExists, bpc, buildError, files, fileIdx, docCount,
                   classCount, memberCount, failedFiles, diskAtStart, dbAtStart,
                   gitFailed, req, req, resp>>
    /\ UNCHANGED <<parserIn, parserOut>>

\* ------------------------------------------------------------------ buildIndex

\* const repoDir = await fetchDocs()
BuildFetchDocs ==
    /\ bpc = "fetchDocs"
    /\ \E gitOk \in BOOLEAN :
          LET r == fetchDocs(repoExists, gitOk)
          IN /\ repoExists' = r.exists
             /\ gitFailed' = r.failed
             /\ bpc' = IF r.threw THEN "rejected" ELSE "openDatabase"
             /\ buildError' = r.err
    /\ UNCHANGED <<argvRebuild, pc, exitCode, indexStatus, indexError, SQL, db,
                   dbPath, disk, files, fileIdx, docCount, classCount, memberCount,
                   failedFiles, diskAtStart, dbAtStart, req, resp>>
    /\ UNCHANGED <<parserIn, parserOut>>

\* await openDatabase(dbPath, false)
BuildOpenDatabase ==
    /\ bpc = "openDatabase"
    /\ \E initOk \in BOOLEAN, readOk \in BOOLEAN :
          LET r == openDatabase(disk, FALSE, initOk, readOk, Wrapper)
          IN /\ SQL' = r.SQL
             /\ db' = r.db
             /\ dbPath' = r.dbPath
             /\ bpc' = IF r.threw THEN "rejected" ELSE "reset"
             /\ buildError' = r.err
    /\ UNCHANGED <<argvRebuild, pc, exitCode, indexStatus, indexError, disk,
                   repoExists, files, fileIdx, docCount, classCount, memberCount,
                   failedFiles, diskAtStart, dbAtStart, gitFailed, req, resp>>
    /\ UNCHANGED <<parserIn, parserOut>>

\* reset(); the schema statements; getDocsFiles(repoDir), which finds n files
\* or throws on a directory it cannot read; the three counters start at 0
BuildReset ==
    /\ bpc = "reset"
    /\ LET r == reset(Wrapper)
       IN /\ db' = r.db
          /\ \E listOk \in BOOLEAN, n \in 0..Min(MaxFiles, Len(RepoPool)) :
                IF r.threw \/ ~listOk
                THEN /\ bpc' = "rejected"
                     /\ buildError' = IF r.threw THEN r.err ELSE "EACCES"
                     /\ UNCHANGED files
                ELSE /\ bpc' = "files"
                     /\ files' = SubSeq(RepoPool, 1, n)
                     /\ UNCHANGED buildError
    /\ fileIdx' = 1
    /\ docCount' = 0
    /\ classCount' = 0
    /\ memberCount' = 0
    /\ UNCHANGED <<argvRebuild, pc, exitCode, indexStatus, indexError, SQL, dbPath,
                   disk, repoExists, failedFiles, diskAtStart, dbAtStart, gitFailed,
                   req, resp>>
    /\ UNCHANGED <<parserIn, parserOut>>

\* one iteration of `for (const file of files)`: try { ... } catch { log }
BuildFile ==
    /\ bpc = "files"
    /\ fileIdx <= Len(files)
    /\ LET file == files[fileIdx]
           steps == FileSteps(file)
       IN \E failAt \in {0} \cup {i \in 1..Len(steps) : CanThrow(steps[i])} :
             LET acc == processFile([st |-> db[1], classId |-> 0,
                                     docCount |-> docCount,
                                     classCount |-> classCount,
                                     memberCount |-> memberCount], file, failAt)
             IN /\ db' = Some(acc.st)
                /\ docCount' = acc.docCount
                /\ classCount' = acc.classCount
                /\ memberCount' = acc.memberCount
                /\ failedFiles' = IF failAt = 0 THEN failedFiles
                                  ELSE failedFiles \cup {fileIdx}
    /\ fileIdx' = fileIdx + 1
    /\ UNCHANGED <<argvRebuild, pc, exitCode, indexStatus, indexError, SQL, dbPath,
                   disk, repoExists, bpc, buildError, files, diskAtStart, dbAtStart,
                   gitFailed, req, req, resp>>
    /\ UNCHANGED <<parserIn, parserOut>>

\* after the last file: save(), the counts are logged, buildIndex resolves
BuildSave ==
    /\ bpc = "files"
    /\ fileIdx > Len(files)
    /\ \E writeOk \in BOOLEAN :
          LET done == Some([db[1] EXCEPT !.full = TRUE])
              r == save(done, disk, writeOk)
          IN /\ db' = done
             /\ disk' = r.file
             /\ bpc' = IF r.threw THEN "rejected" ELSE "resolved"
             /\ buildError' = r.err
    /\ UNCHANGED <<argvRebuild, pc, exitCode, indexStatus, indexError, SQL, dbPath,
                   repoExists, files, fileIdx, docCount, classCount, memberCount,
                   failedFiles, diskAtStart, dbAtStart, gitFailed, req, resp>>
    /\ UNCHANGED <<parserIn, parserOut>>

\* .then(async () => { await openDatabase(DB_PATH, true); indexStatus = 'ready' }),
\* with its own catch: indexStatus = 'error'
BuildThen ==
    /\ ~argvRebuild
    /\ bpc = "resolved"
    /\ indexStatus = "building"
    /\ \E initOk \in BOOLEAN, readOk \in BOOLEAN :
          LET r == openDatabase(disk, TRUE, initOk, readOk, Wrapper)
          IN /\ SQL' = r.SQL
             /\ db' = r.db
             /\ dbPath' = r.dbPath
             /\ IF r.threw
                THEN /\ indexStatus' = "error"
                     /\ indexError' = Some(r.err)
                ELSE /\ indexStatus' = "ready"
                     /\ UNCHANGED indexError
    /\ UNCHANGED <<argvRebuild, pc, exitCode, disk, repoExists, bpc, buildError,
                   files, fileIdx, docCount, classCount, memberCount, failedFiles,
                   diskAtStart, dbAtStart, gitFailed, req, resp>>
    /\ UNCHANGED <<parserIn, parserOut>>

\* mutant: the catch handler sets the status and forgets the reason
BuildCatchNoReason ==
    /\ ~argvRebuild
    /\ bpc = "rejected"
    /\ indexStatus = "building"
    /\ indexStatus' = "error"
    /\ UNCHANGED <<argvRebuild, pc, exitCode, indexError, SQL, db, dbPath, disk,
                   repoExists, bpc, buildError, files, fileIdx, docCount,
                   classCount, memberCount, failedFiles, diskAtStart, dbAtStart,
                   gitFailed, req, resp>>
    /\ UNCHANGED <<parserIn, parserOut>>

\* mutant: the catch handler records the failure and calls buildIndex again
BuildCatchRetries ==
    /\ ~argvRebuild
    /\ bpc = "rejected"
    /\ indexStatus = "building"
    /\ indexStatus' = "error"
    /\ indexError' = Some(buildError)
    /\ bpc' = "fetchDocs"
    /\ UNCHANGED <<argvRebuild, pc, exitCode, SQL, db, dbPath, disk, repoExists,
                   buildError, files, fileIdx, docCount, classCount,
                   memberCount, failedFiles, diskAtStart, dbAtStart, gitFailed,
                   req, resp>>
    /\ UNCHANGED <<parserIn, parserOut>>

\* .catch((err) => { indexStatus = 'error'; indexError = err.message })
BuildCatch ==
    /\ ~argvRebuild
    /\ bpc = "rejected"
    /\ indexStatus = "building"
    /\ indexStatus' = "error"
    /\ indexError' = Some(buildError)
    /\ UNCHANGED <<argvRebuild, pc, exitCode, SQL, db, dbPath, disk, repoExists,
                   bpc, buildError, files, fileIdx, docCount, classCount,
                   memberCount, failedFiles, diskAtStart, dbAtStart, gitFailed,
                   req, resp>>
    /\ UNCHANGED <<parserIn, parserOut>>

\* ------------------------------------------------------------------ requests

\* the switch of the CallToolRequest handler with its try/catch
CallTool(name, status, error, handle, args) ==
    CASE name = "search_galachain_docs" -> searchGalachainDocs(status, error, handle, args)
      [] name = "get_galachain_class" -> getGalachainClass(status, error, handle, args)
      [] name = "get_galachain_method" -> getGalachainMethod(status, error, handle, args)
      [] name = "list_galachain_modules" -> listGalachainModules(status, error, handle, args)
      [] OTHER -> Caught("unknown", status, FALSE, "Unknown tool", args)

Call(name, args) == [name |-> name, args |-> args]

\* the tool calls a client makes while the process runs: each tool with and
\* without its required argument, and a tool the server does not have
ClientCalls ==
    {Call("search_galachain_docs", Args(q, NULL, NULL, NULL, NULL)) :
        q \in {NULL, Some(<<>>), Some(<<"a">>)}}
    \cup {Call("get_galachain_class", Args(NULL, n, NULL, NULL, NULL)) :
            n \in {NULL, Some(<<"F", "o">>)}}
    \cup {Call("get_galachain_method", Args(NULL, n, NULL, NULL, NULL)) :
            n \in {Some(<<" ">>), Some(<<"b">>)}}
    \cup {Call("list_galachain_modules", NoArgs), Call("no_such_tool", NoArgs)}

\* a CallToolRequest arrives on the connected transport
ReceiveRequest ==
    /\ pc = "serving"
    /\ req = NULL
    /\ \E c \in ClientCalls : req' = Some(c)
    /\ resp' = NoResp
    /\ UNCHANGED <<argvRebuild, pc, exitCode, indexStatus, indexError, SQL, db,
                   dbPath, disk, repoExists, bpc, buildError, files, fileIdx,
                   docCount, classCount, memberCount, failedFiles, diskAtStart,
                   dbAtStart, gitFailed>>
    /\ UNCHANGED <<parserIn, parserOut>>

\* The CallToolRequest handler: it reads the status, runs the tool and
\* returns the response; nothing else changes.
HandleRequest ==
    /\ pc = "serving"
    /\ req # NULL
    /\ resp' = CallTool(req[1].name, indexStatus, indexError, db, req[1].args)
    /\ req' = NULL
    /\ UNCHANGED <<argvRebuild, pc, exitCode, indexStatus, indexError, SQL, db,
                   dbPath, disk, repoExists, bpc, buildError, files, fileIdx,
                   docCount, classCount, memberCount, failedFiles, diskAtStart,
                   dbAtStart, gitFailed>>
    /\ UNCHANGED <<parserIn, parserOut>>

Next ==
    \/ MainStart
    \/ MainOpenExisting
    \/ MainRebuildExit
    \/ BuildFetchDocs
    \/ BuildOpenDatabase
    \/ BuildReset
    \/ BuildFile
    \/ BuildSave
    \/ BuildThen
    \/ BuildCatch
    \/ ReceiveRequest
    \/ HandleRequest

Spec == Init /\ [][Next]_vars

\* ------------------------------------------------------------------ search

\* the longest query text of a search call
MaxQueryLen == 2

\* the largest of the small limits of a search call
MaxLimitArg == 2

\* the complete build of a file set in which no step throws
RECURSIVE BuildAll(_, _)
BuildAll(acc, fs) ==
    IF fs = <<>> THEN [acc.st EXCEPT !.full = TRUE]
    ELSE BuildAll(processFile(acc, Head(fs), 0), Tail(fs))

BuildStore(fs) ==
    BuildAll([st |-> NewDatabase, classId |-> 0, docCount |-> 0, classCount |-> 0,
              memberCount |-> 0], fs)

\* a guide with more sections than the largest limit; the sections alternate
\* between the texts "b a" and "a b"
LongGuide ==
    [path |-> GuidePath, classes |-> <<>>,
     chunks |-> [k \in 1..(MaxLimit + 2) |->
                    IF k % 2 = 1 THEN [title |-> <<"b">>, content |-> <<"a">>]
                    ELSE [title |-> <<"a">>, content |-> <<"b">>]]]

\* the store files a server can find at startup
SearchStores ==
    {BuildStore(SubSeq(RepoPool, 1, n)) : n \in 1..Len(RepoPool)}
        \cup {BuildStore(<<LongGuide>>)}

\* the texts of at most n characters over a, b and the space
RECURSIVE TextsUpTo(_)
TextsUpTo(n) ==
    IF n = 0 THEN {<<>>}
    ELSE TextsUpTo(n - 1)
         \cup {Append(t, c) : t \in {u \in TextsUpTo(n - 1) : Len(u) = n - 1},
                              c \in {"a", "b", " "}}

SearchQueries ==
    {NULL} \cup {Some(t) : t \in TextsUpTo(MaxQueryLen)
                                    \cup {<<"A">>, <<"f", "o">>, <<"_">>, <<"%">>,
                                          <<"a", " ", "b">>, <<"b", " ", "b">>}}
SearchPackages == {NULL, Some("chain-api"), Some("guides")}
SearchTypes == {NULL, Some("guide"), Some("class"), Some("interface"),
                Some("method"), Some("enum")}
SearchLimits ==
    {NULL} \cup {Some(l) : l \in (-1..MaxLimitArg) \cup {MaxLimit + 5}}

\* the search calls a client can make
SearchCalls ==
    {Call("search_galachain_docs", Args(q, NULL, p, t, l)) :
        q \in SearchQueries, p \in SearchPackages, t \in SearchTypes,
        l \in SearchLimits}

\* the server has opened an existing store file, is connected and a search
\* call has arrived
InitSearch ==
    /\ argvRebuild = FALSE
    /\ \E st \in SearchStores : disk = Some(st) /\ db = Some(st)
    /\ repoExists = TRUE
    /\ pc = "serving"
    /\ exitCode = NULL
    /\ indexStatus = "ready"
    /\ indexError = NULL
    /\ SQL = TRUE
    /\ dbPath = "DB_PATH"
    /\ bpc = "idle"
    /\ buildError = ""
    /\ files = <<>>
    /\ fileIdx = 1
    /\ docCount = 0
    /\ classCount = 0
    /\ memberCount = 0
    /\ failedFiles = {}
    /\ diskAtStart = NULL
    /\ dbAtStart = NULL
    /\ gitFailed = "none"
    /\ req \in {Some(c) : c \in SearchCalls}
    /\ resp = NoResp
    /\ parserIn = <<>>
    /\ parserOut = <<>>

NextSearch == HandleRequest

SpecSearch == InitSearch /\ [][NextSearch]_vars

\* ------------------------------------------------------------------ lookups

\* the file sets the store files of a server were built from
LookupFileSets ==
    {SubSeq(RepoPool, 1, n) : n \in 1..Len(RepoPool)}
        \cup {<<RepoPool[3], RepoPool[2]>>}

LookupPackages == {NULL, Some(""), Some("chain-api"), Some("chaincode"), Some("guides")}

\* the class, method and module calls a client can make
LookupCalls ==
    {Call("get_galachain_class", Args(NULL, Some(n), p, NULL, NULL)) :
        n \in {<<"F", "o">>, <<"f", "o">>, <<"A">>, <<"F">>, <<"b">>},
        p \in LookupPackages}
    \cup {Call("get_galachain_method", Args(NULL, Some(n), p, NULL, NULL)) :
            n \in {<<"b">>, <<"a">>, <<"B">>, <<"F", "o", ".", "b">>,
                    <<"F", "o", ".", "a">>, <<"A", ".", "b">>, <<"f", "o", ".", "b">>,
                    <<".", "b">>, <<"F", "o", ".">>},
            p \in LookupPackages}
    \cup {Call("list_galachain_modules", Args(NULL, NULL, p, t, NULL)) :
            p \in {NULL, Some("all"), Some("chain-api"), Some("chaincode"),
                    Some("unknown")},
            t \in {NULL, Some("all"), Some("class"), Some("interface"), Some("enum")}}

\* the server has opened an existing store file, is connected and a lookup
\* call has arrived
InitLookup ==
    /\ argvRebuild = FALSE
    /\ \E fs \in LookupFileSets : disk = Some(BuildStore(fs)) /\ db = Some(BuildStore(fs))
    /\ repoExists = TRUE
    /\ pc = "serving"
    /\ exitCode = NULL
    /\ indexStatus = "ready"
    /\ indexError = NULL
    /\ SQL = TRUE
    /\ dbPath = "DB_PATH"
    /\ bpc = "idle"
    /\ buildError = ""
    /\ files = <<>>
    /\ fileIdx = 1
    /\ docCount = 0
    /\ classCount = 0
    /\ memberCount = 0
    /\ failedFiles = {}
    /\ diskAtStart = NULL
    /\ dbAtStart = NULL
    /\ gitFailed = "none"
    /\ req \in {Some(c) : c \in LookupCalls}
    /\ resp = NoResp
    /\ parserIn = <<>>
    /\ parserOut = <<>>

NextLookup == HandleRequest

SpecLookup == InitLookup /\ [][NextLookup]_vars

\* ------------------------------------------------------------------ guide parser

\* The syntax tree remark-parse returns is given by the nodes visit() calls
\* its callback with, in the order of the calls (a node before its children).
\* text is toString(node) (for a code node its value), items the toString of
\* the children of a list.
Node(type, depth, text, lang, items) ==
    [type |-> type, depth |-> depth, text |-> text, lang |-> lang, items |-> items]

\* Array.prototype.join(sep) of texts
RECURSIVE joinWith(_, _)
joinWith(ss, sep) ==
    IF ss = <<>> THEN <<>>
    ELSE IF Len(ss) = 1 THEN ss[1]
    ELSE ss[1] \o sep \o joinWith(Tail(ss), sep)

listToString(items) ==
    joinWith([i \in 1..Len(items) |-> <<"-", " ">> \o items[i]], <<"\n">>)

\* mutant: a chunk is pushed whatever the current heading is
saveChunkAnyHeading(acc) ==
    IF Len(acc.currentContent) > 0
    THEN [acc EXCEPT !.chunks = Append(@, [title |-> acc.currentHeading,
                                           content |-> joinWith(acc.currentContent,
                                                                <<"\n", "\n">>),
                                           headingLevel |-> acc.currentLevel])]
    ELSE acc

\* saveChunk() on acc = [currentHeading, currentLevel, currentContent, chunks]
saveChunk(acc) ==
    IF acc.currentHeading # <<>> /\ Len(acc.currentContent) > 0
    THEN [acc EXCEPT !.chunks = Append(@, [title |-> acc.currentHeading,
                                           content |-> joinWith(acc.currentContent,
                                                                <<"\n", "\n">>),
                                           headingLevel |-> acc.currentLevel])]
    ELSE acc

\* the callback of visit() on one node; "FENCE" is the piece of text made of
\* three backticks
visitNode(acc, node) ==
    LET push(text) == [acc EXCEPT !.currentContent = Append(@, text)]
    IN CASE node.type = "heading" ->
                [saveChunk(acc) EXCEPT !.currentHeading = node.text,
                                       !.currentLevel = node.depth,
                                       !.currentContent = <<>>]
         [] node.type = "paragraph" -> push(node.text)
         [] node.type = "code" ->
                push(<<"FENCE">> \o node.lang \o <<"\n">> \o node.text \o <<"\n", "FENCE">>)
         [] node.type = "list" -> push(listToString(node.items))
         [] node.type = "blockquote" -> push(<<">", " ">> \o node.text)
         [] OTHER -> acc

RECURSIVE visit(_, _)
visit(nodes, acc) ==
    IF nodes = <<>> THEN acc ELSE visit(Tail(nodes), visitNode(acc, Head(nodes)))

\* parseMarkdown on the nodes of the tree of the content
parseMarkdown(nodes) ==
    saveChunk(visit(nodes, [currentHeading |-> <<>>, currentLevel |-> 1,
                            currentContent |-> <<>>, chunks |-> <<>>])).chunks

\* the most nodes of a document
MaxNodes == 4

\* The nodes documents are made of: headings with and without text (`#`
\* alone), a paragraph with text and one that holds only an image without
\* alt text (toString is ''), a code block, a list, and a thematic break,
\* which the callback ignores.
GuideNodes ==
    {Node("heading", 1, <<"A">>, <<>>, <<>>),
     Node("heading", 3, <<"b">>, <<>>, <<>>),
     Node("heading", 2, <<>>, <<>>, <<>>),
     Node("paragraph", 0, <<"a">>, <<>>, <<>>),
     Node("paragraph", 0, <<>>, <<>>, <<>>),
     Node("code", 0, <<"f", "o">>, <<"t", "s">>, <<>>),
     Node("list", 0, <<"a", "b">>, <<>>, <<<<"a">>, <<"b">>>>),
     Node("thematicBreak", 0, <<>>, <<>>, <<>>)}

\* the sequences of at most n members of a set
RECURSIVE SeqsUpTo(_, _)
SeqsUpTo(S, n) ==
    IF n = 0 THEN {<<>>}
    ELSE SeqsUpTo(S, n - 1)
         \cup {Append(t, x) : t \in {u \in SeqsUpTo(S, n - 1) : Len(u) = n - 1}, x \in S}

\* the variables of the server, which a parser does not touch
serverVars ==
    <<argvRebuild, pc, exitCode, indexStatus, indexError, SQL, db, dbPath, disk,
      repoExists, bpc, buildError, files, fileIdx, docCount, classCount,
      memberCount, failedFiles, diskAtStart, dbAtStart, gitFailed, req, resp>>

\* the build is at a file whose content has been read and parsed by remark
InitMarkdown ==
    /\ argvRebuild = FALSE
    /\ disk = NULL
    /\ db = Some(NewDatabase)
    /\ repoExists = TRUE
    /\ pc = "serving"
    /\ exitCode = NULL
    /\ indexStatus = "building"
    /\ indexError = NULL
    /\ SQL = TRUE
    /\ dbPath = "DB_PATH"
    /\ bpc = "files"
    /\ buildError = ""
    /\ files = <<>>
    /\ fileIdx = 1
    /\ docCount = 0
    /\ classCount = 0
    /\ memberCount = 0
    /\ failedFiles = {}
    /\ diskAtStart = NULL
    /\ dbAtStart = NULL
    /\ gitFailed = "none"
    /\ req = NULL
    /\ resp = NoResp
    /\ parserIn \in SeqsUpTo(GuideNodes, MaxNodes)
    /\ parserOut = <<>>

\* parseMarkdown is called on the content, a first and a second time
CallParseMarkdown ==
    /\ Len(parserOut) < 2
    /\ parserOut' = Append(parserOut, parseMarkdown(parserIn))
    /\ UNCHANGED parserIn
    /\ UNCHANGED serverVars

NextMarkdown == CallParseMarkdown

SpecMarkdown == InitMarkdown /\ [][NextMarkdown]_vars

\* ------------------------------------------------------------------ reference parser

\* the member of a set of one value: The({f(v) : v \in {e}}) is f(e), with e
\* computed once
The(S) == CHOOSE x \in S : TRUE

MinOf(S) == The({CHOOSE x \in T : \A y \in T : x <= y : T \in {S}})
MaxOf(S) == The({CHOOSE x \in T : \A y \in T : x >= y : T \in {S}})

\* the last position of the run of characters of a class from position i on
\* (i - 1 for an empty run): where a greedy \w+ ("w"), \s* ("s"), [:\s]+
\* (":s") or .+ (".") ends
RunEnd(s, i, class) ==
    LET test(c) == CASE class = "w" -> IsWordChar(c)
                     [] class = "s" -> IsSpace(c)
                     [] class = ":s" -> c = ":" \/ IsSpace(c)
                     [] OTHER -> c # "\n"
        stop == {k \in i..Len(s) : ~test(s[k])}
    IN IF stop = {} THEN Len(s) ELSE MinOf(stop) - 1

\* /(\w+)\s*\(/ on a signature: the word of the leftmost match, NULL for none
signatureName(sig) ==
    LET starts == {i \in 1..Len(sig) :
                     /\ IsWordChar(sig[i])
                     /\ LET a == RunEnd(sig, RunEnd(sig, i, "w") + 1, "s") + 1
                        IN a <= Len(sig) /\ sig[a] = "("}
    IN IF starts = {} THEN NULL
       ELSE Some(SubSeq(sig, MinOf(starts), RunEnd(sig, MinOf(starts), "w")))

\* /\(([^)]*)\)/ on a signature: the text between the first ( and the first
\* ) after it, NULL for no match
sigParamsMatch(sig) ==
    LET opens == {i \in 1..Len(sig) : sig[i] = "("}
        closes == {k \in 1..Len(sig) : sig[k] = ")" /\ k > MinOf(opens)}
    IN IF opens = {} THEN NULL
       ELSE IF closes = {} THEN NULL
       ELSE Some(SubSeq(sig, MinOf(opens) + 1, MinOf(closes) - 1))

\* the for loop of splitParams from the character at position i
RECURSIVE splitParamsFrom(_, _, _, _, _)
splitParamsFrom(str, i, current, depth, parts) ==
    IF i > Len(str)
    THEN IF trim(current) # <<>> THEN Append(parts, trim(current)) ELSE parts
    ELSE IF str[i] \in {"<", "(", "{", "["}
         THEN splitParamsFrom(str, i + 1, Append(current, str[i]), depth + 1, parts)
    ELSE IF str[i] \in {">", ")", "}", "]"}
         THEN splitParamsFrom(str, i + 1, Append(current, str[i]), depth - 1, parts)
    ELSE IF str[i] = "," /\ depth = 0
         THEN splitParamsFrom(str, i + 1, <<>>, depth, Append(parts, trim(current)))
    ELSE splitParamsFrom(str, i + 1, Append(current, str[i]), depth, parts)

splitParams(paramStr) == splitParamsFrom(paramStr, 1, <<>>, 0, <<>>)

\* \s*(.+) from position a: the whitespace is given back until a character
\* other than the newline follows; the capture runs to the end of the line.
\* NULL for no match, else the capture and the position after it.
restOfLine(s, a) ==
    LET from == {j \in a..(RunEnd(s, a, "s") + 1) : j <= Len(s) /\ s[j] # "\n"}
        e == RunEnd(s, MaxOf(from), ".")
    IN IF from = {} THEN NULL
       ELSE Some([text |-> SubSeq(s, MaxOf(from), e), next |-> e + 1])

\* /(\w+)(\?)?:\s*(.+)/ on a part of the parameter text: the ParamInfo of
\* the leftmost match, NULL for none
paramMatch(part) ==
    LET colon(i) == LET e == RunEnd(part, i, "w")
                    IN IF e + 1 <= Len(part) /\ part[e + 1] = "?" THEN e + 2 ELSE e + 1
        starts == {i \in 1..Len(part) :
                     /\ IsWordChar(part[i])
                     /\ colon(i) <= Len(part)
                     /\ part[colon(i)] = ":"
                     /\ restOfLine(part, colon(i) + 1) # NULL}
        i0 == MinOf(starts)
    IN IF starts = {} THEN NULL
       ELSE Some([name |-> SubSeq(part, i0, RunEnd(part, i0, "w")),
                  type |-> trim(restOfLine(part, colon(i0) + 1)[1].text),
                  description |-> <<>>,
                  optional |-> part[colon(i0) - 1] = "?"])

\* The match of paramDescPattern that starts at position p, NULL for none:
\* a bullet character, a word, a text in parentheses if one follows, and
\* the rest of the line after a dash or colon if one follows. "BQ" is the
\* backtick.
paramDescMatchAt(s, p) ==
    LET quote(k) == k <= Len(s) /\ s[k] \in {"BQ", "'"}
        skip(k) == RunEnd(s, k, "s") + 1
        \* b, e: the word; g: where a text in parentheses may start; t: its
        \* closing parenthesis, 0 for no such text; rest: the rest of the line
        match(b, e, g, t, rest) ==
            LET next == IF rest # NULL THEN rest[1].next
                        ELSE IF t > 0 THEN t + 1
                        ELSE IF quote(e + 1) THEN e + 2 ELSE e + 1
            IN [name |-> SubSeq(s, b, e),
                type |-> IF t > 0 THEN Some(SubSeq(s, g + 1, t - 1)) ELSE NULL,
                desc |-> IF rest # NULL THEN Some(rest[1].text) ELSE NULL,
                text |-> SubSeq(s, p, next - 1),
                next |-> next]
        tail(b, e, g, t) ==
            LET d == skip(IF t > 0 THEN t + 1 ELSE IF quote(e + 1) THEN e + 2 ELSE e + 1)
            IN The({match(b, e, g, t, rest) :
                      rest \in {IF d <= Len(s) /\ s[d] \in {"-", ":"}
                                THEN restOfLine(s, d + 1) ELSE NULL}})
        type(b, e, g) ==
            LET closes == {k \in (g + 1)..Len(s) : s[k] = ")"}
            IN The({tail(b, e, g, t) :
                      t \in {IF g <= Len(s) /\ s[g] = "(" /\ closes # {}
                                 /\ MinOf(closes) > g + 1
                             THEN MinOf(closes) ELSE 0}})
        word(b) ==
            The({The({type(b, e, g) :
                        g \in {skip(IF quote(e + 1) THEN e + 2 ELSE e + 1)}}) :
                   e \in {RunEnd(s, b, "w")}})
    IN IF s[p] \notin {"-", "*"} THEN NULL
       ELSE The({IF b <= Len(s) /\ IsWordChar(s[b]) THEN Some(word(b)) ELSE NULL :
                   b \in {IF quote(skip(p + 1)) THEN skip(p + 1) + 1 ELSE skip(p + 1)}})

\* the matches the loop over paramDescPattern.exec(section) sees from
\* lastIndex i - 1 on
RECURSIVE paramDescMatches(_, _)
paramDescMatches(s, i) ==
    LET at == {p \in i..Len(s) : paramDescMatchAt(s, p) # NULL}
        from(m) == <<m>> \o paramDescMatches(s, m.next)
    IN The({IF ps = {} THEN <<>>
            ELSE The({from(m) : m \in {paramDescMatchAt(s, MinOf(ps))[1]}}) : ps \in {at}})

\* the body of the loop over the matches: an existing parameter is enriched,
\* a new one is pushed when the match has a type or a description
RECURSIVE enrichParams(_, _)
enrichParams(params, matches) ==
    IF matches = <<>> THEN params
    ELSE LET m == Head(matches)
             at == {k \in 1..Len(params) : params[k].name = m.name}
             k0 == MinOf(at)
             new == [name |-> m.name,
                     type |-> IF m.type # NULL THEN m.type[1] ELSE <<"unknown">>,
                     description |-> IF m.desc # NULL THEN trim(m.desc[1]) ELSE <<>>,
                     optional |-> includes(m.text, <<"?">>)]
             next == IF at # {}
                     THEN [params EXCEPT
                             ![k0].type = IF m.type # NULL THEN m.type[1] ELSE @,
                             ![k0].description =
                                 IF m.desc # NULL THEN trim(m.desc[1]) ELSE @]
                     ELSE IF m.type # NULL \/ m.desc # NULL THEN Append(params, new)
                     ELSE params
         IN The({enrichParams(ps, ms) : ps \in {next}, ms \in {Tail(matches)}})

parseParams(section, signature) ==
    LET str == sigParamsMatch(signature)
        parts == IF str # NULL /\ trim(str[1]) # <<>> THEN splitParams(str[1]) ELSE <<>>
        found == SelectSeq([k \in 1..Len(parts) |-> paramMatch(parts[k])],
                           LAMBDA m : m # NULL)
    IN The({enrichParams(ps, ms) : ps \in {[k \in 1..Len(found) |-> found[k][1]]},
                                  ms \in {paramDescMatches(section, 1)}})

\* parseMemberSection: the name, the kind and the signature of the member of
\* a section that starts with the member's heading. sigMatch is
\* /FENCE(?:typescript|ts)?\s*\n([^BQ]+)\nFENCE/: the text between the
\* first fence that opens a block and the next fence, from the line after
\* the fence to the line before the closing one; the signature is the first
\* line of the trimmed text.
parseMemberSection(name, section) ==
    LET fences == {i \in 1..Len(section) : section[i] = "FENCE"}
        close(i) == MinOf({j \in fences : j > i})
        after(i) == IF i < Len(section) /\ section[i + 1] \in {"ts", "typescript"}
                    THEN i + 2 ELSE i + 1
        opens(i) == /\ \E j \in fences : j > i
                    /\ section[close(i) - 1] = "\n"
                    /\ \E p \in after(i)..(close(i) - 3) :
                          /\ section[p] = "\n"
                          /\ \A q \in after(i)..p : IsSpace(section[q])
        block(i) == trim(SubSeq(section, after(i), close(i) - 2))
        firstLine(t) == SubSeq(t, 1, MinOf({k \in 1..(Len(t) + 1) :
                                               k > Len(t) \/ t[k] = "\n"}) - 1)
        starts == {i \in fences : opens(i)}
        signature == IF starts = {} THEN <<>>
                     ELSE The({firstLine(block(i)) : i \in {MinOf(starts)}})
        type(sig) ==
            IF name = <<"constructor">> \/ name = <<"new">> THEN "constructor"
            ELSE IF ~includes(sig, <<"(">>) /\ ~includes(toLowerCase(section), <<"method">>)
                 THEN "property"
            ELSE IF includes(section, <<"get", " ">>) \/ includes(section, <<"set", " ">>)
                 THEN "accessor"
            ELSE "method"
    IN The({[name |-> name, type |-> type(sig), signature |-> sig] : sig \in {signature}})

\* parseMemberFromSignature: NULL, or the name, the kind and the parameters
\* of the member
parseMemberFromSignature(signature, context) ==
    IF signatureName(signature) = NULL THEN NULL
    ELSE Some([name |-> signatureName(signature)[1],
               type |-> IF signatureName(signature)[1] = <<"constructor">>
                        THEN "constructor" ELSE "method",
               params |-> parseParams(context, signature)])

\* The second loop of parseMembers on a section that is one fenced code
\* block of one line followed by a text: sigPattern matches when the line
\* starts with a word followed by ( and a ) comes after it (no word of the
\* model's texts is a modifier); the context is the section from the opening
\* fence on.
parseMembers(signature, rest) ==
    LET a == RunEnd(signature, RunEnd(signature, 1, "w") + 1, "s") + 1
        matches == /\ signature # <<>>
                   /\ IsWordChar(signature[1])
                   /\ a <= Len(signature)
                   /\ signature[a] = "("
                   /\ \E k \in (a + 1)..Len(signature) : signature[k] = ")"
        member == parseMemberFromSignature(
                      trim(signature),
                      <<"FENCE", "\n">> \o signature \o <<"\n", "FENCE">> \o rest)
    IN IF matches /\ member # NULL THEN <<member[1]>> ELSE <<>>

\* /(?:Extends|extends)[:\s]+[BQ\[]?(\w+)[BQ\]]?/i on a section: the word of
\* the leftmost match, NULL for none
extendsClause(section) ==
    LET sep(c) == c = ":" \/ IsSpace(c)
        word(i) == LET a == RunEnd(section, i + 1, ":s") + 1
                   IN IF a <= Len(section) /\ section[a] \in {"BQ", "["} THEN a + 1 ELSE a
        starts == {i \in 1..Len(section) :
                     /\ section[i] \in {"extends", "Extends"}
                     /\ i + 1 <= Len(section)
                     /\ sep(section[i + 1])
                     /\ word(i) <= Len(section)
                     /\ IsWordChar(section[word(i)])}
    IN IF starts = {} THEN NULL
       ELSE Some(SubSeq(section, word(MinOf(starts)),
                        RunEnd(section, word(MinOf(starts)), "w")))

\* The class name of the section whose heading line continues with a text:
\* firstLine is the trimmed text, a section with an empty first line or one
\* that starts with # is skipped (in the nested pass /^\[?(\w+)\]?/ fails on
\* a #), the name is the word after an optional [, and parseClassSection
\* returns null for the name Classes. NULL for no class.
sectionClassName(text) ==
    LET firstLine == trim(text)
        i == IF firstLine[1] = "[" THEN 2 ELSE 1
    IN IF firstLine = <<>> THEN NULL
       ELSE IF firstLine[1] \in {"#", "##", "###"} THEN NULL
       ELSE IF i > Len(firstLine) \/ ~IsWordChar(firstLine[i]) THEN NULL
       ELSE IF SubSeq(firstLine, i, RunEnd(firstLine, i, "w")) = <<"Classes">> THEN NULL
       ELSE Some(SubSeq(firstLine, i, RunEnd(firstLine, i, "w")))

\* One pass of parseTypedocMarkdown over the lines of a file from line i on.
\* Pass 1 splits at /^## (?!Classes|...)/m and pushes every class; pass 2
\* splits at /^### (?!\s)/m and skips a name some class of the list has.
\* A class is recorded with its name and the line its section starts at.
RECURSIVE parseSections(_, _, _, _)
parseSections(classes, lines, i, pass) ==
    IF i > Len(lines) THEN classes
    ELSE LET line == lines[i]
             splits == IF pass = 1
                       THEN /\ Len(line) >= 2 /\ line[1] = "##" /\ line[2] = " "
                            /\ (Len(line) >= 3 => line[3] # "Classes")
                       ELSE /\ Len(line) >= 3 /\ line[1] = "###" /\ line[2] = " "
                            /\ ~IsSpace(line[3])
             name == IF splits THEN sectionClassName(SubSeq(line, 3, Len(line))) ELSE NULL
             seen(n) == pass = 2 /\ \E k \in 1..Len(classes) : classes[k].name = n
         IN The({parseSections(
                     IF n # NULL /\ ~seen(n[1])
                     THEN Append(classes, [name |-> n[1], line |-> i]) ELSE classes,
                     lines, i + 1, pass) : n \in {name}})

parseTypedocMarkdown(lines) ==
    The({parseSections(top, lines, 1, 2) : top \in {parseSections(<<>>, lines, 1, 1)}})

\* the most argument groups of a signature
MaxArgs == 2

\* the most lines of a reference file
MaxLines == 3

\* the lines of a reference file: ## and ### headings with the names Fo and
\* A, a linked name, the category heading Classes, a nested heading with a
\* second space, a heading whose text starts with #, and a line of text
FileLines ==
    {<<"##", " ", "F", "o">>,
     <<"##", " ", "[", "F", "o", "]">>,
     <<"##", " ", "A">>,
     <<"##", " ", "Classes">>,
     <<"##", " ", "#", "A">>,
     <<"###", " ", "F", "o">>,
     <<"###", " ", "A">>,
     <<"###", " ", "Classes">>,
     <<"###", " ", " ", "A">>,
     <<"F", "o">>}

\* the most pieces of the text of a section
MaxSectionLen == 4

\* The argument groups signatures are made of: a: A, b?: B<A, A>,
\* f: (a: A) => B, o: A => B, F: {a: A, b: B} and _: [A, B]
ArgGroups ==
    {<<"a", ":", " ", "A">>,
     <<"b", "?", ":", " ", "B", "<", "A", ",", " ", "A", ">">>,
     <<"f", ":", " ", "(", "a", ":", " ", "A", ")", " ", "=", ">", " ", "B">>,
     <<"o", ":", " ", "A", " ", "=", ">", " ", "B">>,
     <<"F", ":", " ", "{", "a", ":", " ", "A", ",", " ", "b", ":", " ", "B", "}">>,
     <<"_", ":", " ", "[", "A", ",", " ", "B", "]">>}

\* the texts after the code block: nothing, the bullet lines - a: f,
\* - a (B) - f and - B (A) - f, and the prose a-b
RestTexts ==
    {<<>>,
     <<"\n", "-", " ", "a", ":", " ", "f">>,
     <<"\n", "-", " ", "a", " ", "(", "B", ")", " ", "-", " ", "f">>,
     <<"\n", "-", " ", "B", " ", "(", "A", ")", " ", "-", " ", "f">>,
     <<"\n", "\n", "a", "-", "b">>}

\* the most pieces of the part of a path between docs/ and the file name
MaxPathLen == 3

\* the paths of the files under docs/: galachain-sdk/docs/ ... x.md
DocsPaths ==
    {<<"galachain-sdk", "/", "docs", "/">> \o mid \o <<"x", ".md">> :
        mid \in SeqsUpTo({"chain-api", "chain-cli", "ent", "chain-test", "chaincode",
                          "-docs", "/", "x", "README", "getting-started"},
                         MaxPathLen)}

\* The sections of members found under a heading: the heading #### name,
\* then no code block or a block whose text is a call signature, a typed
\* name, an accessor or two lines, then a text.
MemberSections ==
    {[name |-> n,
      section |-> <<"####", " ">> \o n \o <<"\n">>
                  \o (IF code = <<>> THEN <<>>
                      ELSE <<"FENCE", "ts", "\n">> \o code \o <<"\n", "FENCE", "\n">>)
                  \o text] :
        n \in {<<"constructor">>, <<"new">>, <<"f">>},
        code \in {<<>>, <<"f", "(", ")">>, <<"f", ":", " ", "A">>,
                  <<"get", " ", "f", "(", ")">>, <<"f", "\n", "f", "(", ")">>},
        text \in {<<>>, <<"a">>, <<"a", " ", "method">>, <<"get", " ", "a">>}}

\* the inputs of the reference parser: a code block whose line is
\* name(group, group) followed by a text, the text of a section, the
\* lines of a file, the path of a file, or the section of a member
ReferenceInputs ==
    {[kind |-> "block", name |-> n, groups |-> gs,
      signature |-> n \o <<"(">> \o joinWith(gs, <<",", " ">>) \o <<")">>,
      rest |-> r, section |-> <<>>, lines |-> <<>>, path |-> <<>>] :
        n \in {<<"f">>, <<"f", "o">>, <<"constructor">>, <<"new">>},
        gs \in SeqsUpTo(ArgGroups, MaxArgs),
        r \in RestTexts}
    \cup {[kind |-> "section", name |-> <<>>, groups |-> <<>>, signature |-> <<>>,
           rest |-> <<>>, section |-> t, lines |-> <<>>, path |-> <<>>] :
            t \in SeqsUpTo({"extends", "Extends", ":", " ", "\n", "A", "["},
                           MaxSectionLen)}
    \cup {[kind |-> "file", name |-> <<>>, groups |-> <<>>, signature |-> <<>>,
           rest |-> <<>>, section |-> <<>>, lines |-> ls, path |-> <<>>] :
            ls \in SeqsUpTo(FileLines, MaxLines)}
    \cup {[kind |-> "path", name |-> <<>>, groups |-> <<>>, signature |-> <<>>,
           rest |-> <<>>, section |-> <<>>, lines |-> <<>>, path |-> f] :
            f \in DocsPaths}
    \cup {[kind |-> "member", name |-> m.name, groups |-> <<>>, signature |-> <<>>,
           rest |-> <<>>, section |-> m.section, lines |-> <<>>, path |-> <<>>] :
            m \in MemberSections}

\* the build is at a reference file whose content has been read
InitReference ==
    /\ argvRebuild = FALSE
    /\ disk = NULL
    /\ db = Some(NewDatabase)
    /\ repoExists = TRUE
    /\ pc = "serving"
    /\ exitCode = NULL
    /\ indexStatus = "building"
    /\ indexError = NULL
    /\ SQL = TRUE
    /\ dbPath = "DB_PATH"
    /\ bpc = "files"
    /\ buildError = ""
    /\ files = <<>>
    /\ fileIdx = 1
    /\ docCount = 0
    /\ classCount = 0
    /\ memberCount = 0
    /\ failedFiles = {}
    /\ diskAtStart = NULL
    /\ dbAtStart = NULL
    /\ gitFailed = "none"
    /\ req = NULL
    /\ resp = NoResp
    /\ parserIn \in ReferenceInputs
    /\ parserOut = <<>>

\* parseMembers is called on a section with a code block
CallParseMembers ==
    /\ parserIn.kind = "block"
    /\ parserOut = <<>>
    /\ parserOut' = <<parseMembers(parserIn.signature, parserIn.rest)>>
    /\ UNCHANGED parserIn
    /\ UNCHANGED serverVars

\* parseClassSection extracts the extends clause of a section
CallParseClassSection ==
    /\ parserIn.kind = "section"
    /\ parserOut = <<>>
    /\ parserOut' = <<[extendsClause |-> extendsClause(parserIn.section)]>>
    /\ UNCHANGED parserIn
    /\ UNCHANGED serverVars

\* parseTypedocMarkdown is called on the content of a file
CallParseTypedocMarkdown ==
    /\ parserIn.kind = "file"
    /\ parserOut = <<>>
    /\ parserOut' = <<parseTypedocMarkdown(parserIn.lines)>>
    /\ UNCHANGED parserIn
    /\ UNCHANGED serverVars

\* The build classifies a file by its path and the parsers derive their
\* metadata from it: the package of the classes of parseTypedocMarkdown,
\* the package and the category of the chunks of parseMarkdown.
CallClassifyFile ==
    /\ parserIn.kind = "path"
    /\ parserOut = <<>>
    /\ parserOut' = <<[typedoc |-> isTypedocFile(parserIn.path),
                       classPackage |-> detectPackageFromPath(parserIn.path),
                       docPackage |-> detectPackage(parserIn.path),
                       category |-> detectCategory(parserIn.path)]>>
    /\ UNCHANGED parserIn
    /\ UNCHANGED serverVars

\* the first loop of parseMembers calls parseMemberSection on the section
\* of a member heading
CallParseMemberSection ==
    /\ parserIn.kind = "member"
    /\ parserOut = <<>>
    /\ parserOut' = <<parseMemberSection(parserIn.name, parserIn.section)>>
    /\ UNCHANGED parserIn
    /\ UNCHANGED serverVars

NextReference ==
    \/ CallClassifyFile
    \/ CallParseMemberSection
    \/ CallParseMembers
    \/ CallParseClassSection
    \/ CallParseTypedocMarkdown

SpecReference == InitReference /\ [][NextReference]_vars

\* ------------------------------------------------------------------ properties

FourTools == {"search", "getClass", "getMethod", "listModules"}

\* C1: a tool that reads the status 'building' returns the index-is-building
\* message, whatever its arguments (none is validated first), and runs no
\* query on the store handle.
C1_BuildingMessage ==
    (resp.tool \in FourTools /\ resp.status = "building")
        => (resp.kind = "building" /\ ~resp.queried /\ resp.results = <<>>)

\* C1 witness: a method lookup with a blank name is answered 'building' while
\* the build holds the handle open and has inserted rows into it
C1_Witness ==
    /\ resp.tool = "getMethod"
    /\ resp.kind = "building"
    /\ IsBlank(resp.args.name)
    /\ bpc = "files"
    /\ db # NULL
    /\ db[1].docs # <<>>

\* C2: a tool that reads the status 'error' returns the message that carries
\* the recorded reason, never a thrown error or a query result; whenever the
\* status is 'error' the reason is not null.
C2_ErrorReason ==
    /\ (resp.tool \in FourTools /\ resp.status = "error")
          => /\ resp.kind = "error"
             /\ resp.error # NULL
             /\ resp.error = indexError
             /\ ~resp.queried
             /\ resp.results = <<>>
    /\ indexStatus = "error" => indexError # NULL

\* C2 witness: a search is answered with the reason of a failed clone
C2_Witness ==
    /\ resp.tool = "search"
    /\ resp.kind = "error"
    /\ resp.error = Some("clone failed")
    /\ indexStatus = "error"

\* C3: the status goes from 'building' to 'ready' only in the step that
\* opens the store saved by a resolved build whose loop has run over every
\* file; while requests are served with the status 'ready' the handle is
\* open on a completely built store.
C3_ReadyOnlyAfterBuild ==
    /\ []((pc = "serving" /\ indexStatus = "ready") => (db # NULL /\ db[1].full))
    /\ []((resp.tool \in FourTools /\ resp.status = "ready")
             => (db # NULL /\ db[1].full /\ resp.kind # "caught"))
    /\ [][(indexStatus = "building" /\ indexStatus' = "ready")
             => /\ bpc = "resolved"
                /\ fileIdx > Len(files)
                /\ disk # NULL
                /\ disk[1].full
                /\ disk' = disk
                /\ db' = disk]_vars

\* C3 witness: after a background build in which a file failed, a class
\* lookup is answered from the store with the status 'ready'
C3_Witness ==
    /\ resp.tool = "getClass"
    /\ resp.status = "ready"
    /\ resp.kind = "found"
    /\ bpc = "resolved"
    /\ failedFiles # {}

\* C4: when buildIndex has rejected, the store file and the store handle are
\* as they were when it was called.
C4_FailedBuildLeavesStore ==
    bpc = "rejected" => (disk = diskAtStart /\ db = dbAtStart)

\* C5 (as claimed): after any failed git command of fetchDocs the build has
\* rejected with the store not opened, reset or written and no file indexed.
C5_AnyFetchFailureAborts ==
    gitFailed # "none"
        => /\ bpc = "rejected"
           /\ db = dbAtStart
           /\ disk = diskAtStart
           /\ files = <<>>

\* C5 (amended): after a failed clone the build has rejected with the store
\* not opened, reset or written and no file indexed; a failed pull is caught
\* and the build goes on to open the store.
C5_CloneFailureAborts ==
    /\ [](gitFailed = "clone"
            => /\ bpc = "rejected"
               /\ ~SQL
               /\ db = dbAtStart
               /\ disk = diskAtStart
               /\ files = <<>>
               /\ fileIdx = 1)
    /\ [][(gitFailed = "none" /\ gitFailed' = "pull") => bpc' = "openDatabase"]_vars

\* C5 witness: the clone failed and the server reports the error status
C5_Witness ==
    /\ gitFailed = "clone"
    /\ bpc = "rejected"
    /\ indexStatus = "error"
    /\ db = NULL

\* the rows of a store that come from the file at a path
DocsOf(st, path) == SelectSeq(st.docs, LAMBDA r : r.file_path = path)
ClassesOf(st, path) == SelectSeq(st.classes, LAMBDA r : r.file_path = path)
MembersOf(st, path) ==
    SelectSeq(st.members,
              LAMBDA m : \E i \in 1..Len(st.classes) :
                            /\ st.classes[i].id = m.class_id
                            /\ st.classes[i].file_path = path)

RECURSIVE SumLen(_)
SumLen(ss) == IF ss = <<>> THEN 0 ELSE Len(Head(ss)) + SumLen(Tail(ss))

\* C6: in a build that resolved, the saved store holds no row of a file whose
\* processing threw, and every row of every other file.
C6_FailedFileAbsent ==
    bpc = "resolved"
        => \A f \in 1..Len(files) :
              LET path == files[f].path
                  st == disk[1]
              IN IF f \in failedFiles
                 THEN /\ DocsOf(st, path) = <<>>
                      /\ ClassesOf(st, path) = <<>>
                      /\ MembersOf(st, path) = <<>>
                 ELSE /\ Len(DocsOf(st, path)) = Len(files[f].chunks)
                      /\ isTypedocFile(path)
                            => /\ Len(ClassesOf(st, path)) = Len(files[f].classes)
                               /\ Len(MembersOf(st, path))
                                     = SumLen([c \in 1..Len(files[f].classes) |->
                                                  files[f].classes[c].members])

\* C7: in a build that resolved, the three reported counts are the numbers of
\* rows of the three tables of the saved store.
C7_CountsMatchRows ==
    bpc = "resolved"
        => /\ docCount = Len(disk[1].docs)
           /\ classCount = Len(disk[1].classes)
           /\ memberCount = Len(disk[1].members)

\* the limit a search call asks for, the default taken for undefined
AskedLimit(args) == IF args.limit = NULL THEN DefaultLimit ELSE args.limit[1]

\* the member row of a store with an id
MemberById(st, id) == SelectSeq(st.members, LAMBDA m : m.id = id)

\* C8: a search returns at most min(max(limit, 1), 20) results, and with a
\* package filter other than 'all' every result has that package; the
\* package of a member result is that of the declaration that owns the member.
C8_LimitAndPackage ==
    resp.tool = "search"
        => /\ Len(resp.results) <= Min(Max(AskedLimit(resp.args), 1), 20)
           /\ \A i \in 1..Len(resp.results) :
                 LET r == resp.results[i]
                 IN /\ (resp.args.package # NULL /\ resp.args.package[1] # "all")
                          => r.package = resp.args.package[1]
                    /\ r.type = "method"
                          => /\ MemberById(db[1], r.id) # <<>>
                             /\ ClassOf(db[1], MemberById(db[1], r.id)[1]) # <<>>
                             /\ ClassOf(db[1], MemberById(db[1], r.id)[1])[1].package
                                   = r.package

\* C8 witness: a search with limit 25 over more than 20 matching guide
\* sections returns exactly 20 results, all of the package asked for
C8_Witness ==
    /\ resp.tool = "search"
    /\ resp.args.limit = Some(MaxLimit + 5)
    /\ resp.args.package = Some("guides")
    /\ Len(resp.results) = MaxLimit
    /\ Len(db[1].docs) > MaxLimit

\* a text that is empty or all whitespace
AllSpace(t) == \A i \in 1..Len(t) : IsSpace(t[i])

\* C9: a search call whose query is empty or all whitespace gets no result,
\* is not answered with a caught error and runs no query on the store; and
\* searchDocs itself returns no result for such a query, for every package
\* filter, type filter and limit.
C9_BlankQueryIsEmpty ==
    /\ (resp.tool = "search" /\ resp.args.query # NULL /\ AllSpace(resp.args.query[1]))
          => /\ resp.results = <<>>
             /\ resp.kind # "caught"
             /\ ~resp.queried
    /\ (req # NULL /\ req[1].args.query # NULL /\ AllSpace(req[1].args.query[1]))
          => \A l \in 1..MaxLimit :
                searchDocs(db, req[1].args.query[1],
                           OrDefault(req[1].args.package, "all"),
                           OrDefault(req[1].args.type, "all"), l) = <<>>

\* C9 witness: a search for two spaces with a package and a type filter has
\* been answered without a result over a store that holds rows
C9_Witness ==
    /\ resp.tool = "search"
    /\ resp.args.query = Some(<<" ", " ">>)
    /\ resp.args.package = Some("guides")
    /\ resp.args.type = Some("guide")
    /\ resp.results = <<>>
    /\ db[1].docs # <<>>

\* all rows of the applicable kinds that match a search, not limited
AllMatches(handle, query, pkg, type) ==
    LET terms == searchTerms(query)
    IN searchDocRows(handle, terms, pkg, type, -1)
       \o searchClassRows(handle, terms, pkg, type, -1)
       \o searchMemberRows(handle, terms, pkg, type, -1)

\* C10: the results of a search are in non-decreasing rank order, and no
\* matching row with a rank strictly lower than that of a returned row is
\* missing from them.
C10_BestRanked ==
    (resp.tool = "search" /\ resp.kind = "found")
        => LET rs == resp.results
               all == AllMatches(db, resp.args.query[1],
                                 OrDefault(resp.args.package, "all"),
                                 OrDefault(resp.args.type, "all"))
           IN /\ \A i \in 1..(Len(rs) - 1) : rs[i].rank <= rs[i + 1].rank
              /\ \A k \in 1..Len(all) :
                    (\E i \in 1..Len(rs) : all[k].rank < rs[i].rank)
                        => \E i \in 1..Len(rs) : rs[i] = all[k]

\* the stored search text of the row a search result stands for
StoredSearchText(st, r) ==
    LET table == CASE r.type = "doc" -> st.docs
                   [] r.type = "class" -> st.classes
                   [] OTHER -> st.members
    IN SelectSeq(table, LAMBDA row : row.id = r.id)[1].search_text

\* C11: the stored search text of every row a search returns contains every
\* lowercased whitespace-separated term of the query as a literal substring,
\* the terms with the characters % and _ included.
C11_TermsAreSubstrings ==
    (resp.tool = "search" /\ resp.kind = "found")
        => \A i \in 1..Len(resp.results) :
              \A k \in 1..Len(searchTerms(resp.args.query[1])) :
                 includes(StoredSearchText(db[1], resp.results[i]),
                          searchTerms(resp.args.query[1])[k])

\* the type filter of a search call, the default taken for undefined
AskedType(args) == OrDefault(args.type, "all")

\* C12: doc chunks are returned only for the type filters 'all' and 'guide',
\* declarations only for 'all', 'class' and 'interface', members only for
\* 'all' and 'method'; for every other filter the result is empty.
C12_KindsByTypeFilter ==
    resp.tool = "search"
        => /\ \A i \in 1..Len(resp.results) :
                 LET r == resp.results[i]
                     t == AskedType(resp.args)
                 IN /\ r.type \in {"doc", "class", "method"}
                    /\ r.type = "doc" => t \in {"all", "guide"}
                    /\ r.type = "class" => t \in {"all", "class", "interface"}
                    /\ r.type = "method" => t \in {"all", "method"}
           /\ AskedType(resp.args) \notin {"all", "guide", "class", "interface", "method"}
                 => resp.results = <<>>

\* C12 witness: a search for "b" with the type filter 'guide' over a store
\* that holds a matching member returns doc chunks only
C12_Witness ==
    /\ resp.tool = "search"
    /\ resp.args.type = Some("guide")
    /\ resp.args.query = Some(<<"b">>)
    /\ resp.args.package = NULL
    /\ resp.kind = "found"
    /\ \E k \in 1..Len(db[1].members) :
          includes(db[1].members[k].search_text, <<"b">>)
    /\ \A i \in 1..Len(resp.results) : resp.results[i].type = "doc"

\* the package a lookup call gives: undefined and '' are no package
GivenPackage(args) ==
    IF args.package = NULL \/ args.package = Some("") THEN NULL ELSE args.package

\* the positions of the declaration rows with a name and, if given, a package
ClassHits(st, name, pkg) ==
    {k \in 1..Len(st.classes) :
        /\ st.classes[k].name = name
        /\ (pkg = NULL \/ st.classes[k].package = pkg[1])}

\* the ids of the member rows owned by the declaration row with an id
OwnedIds(st, classId) ==
    {st.members[m].id : m \in {n \in 1..Len(st.members) : st.members[n].class_id = classId}}

\* C13: getClass returns nothing exactly when no declaration row has the name
\* (and the package, when one is given); otherwise it returns one declaration
\* row with that name and package together with every member row that row
\* owns, each once, and no member row owned by another declaration.
C13_ExactClassWithOwnMembers ==
    (resp.tool = "getClass" /\ resp.kind \in {"found", "notFound"})
        => LET st == db[1]
               hits == ClassHits(st, resp.args.name[1], GivenPackage(resp.args))
           IN /\ (resp.results = NULL) <=> (hits = {})
              /\ resp.results # NULL
                    => LET r == resp.results[1]
                       IN /\ \E k \in hits : st.classes[k] = r.cls
                          /\ r.cls.name = resp.args.name[1]
                          /\ GivenPackage(resp.args) # NULL
                                => r.cls.package = GivenPackage(resp.args)[1]
                          /\ {r.members[j].id : j \in 1..Len(r.members)}
                                = OwnedIds(st, r.cls.id)
                          /\ Len(r.members) = Cardinality(OwnedIds(st, r.cls.id))

\* C13 witness: the declaration Fo of the package chaincode is returned with
\* its two members from a store in which the declaration Fo of another
\* package owns a member too
C13_Witness ==
    /\ resp.tool = "getClass"
    /\ resp.kind = "found"
    /\ resp.args.package = Some("chaincode")
    /\ resp.results[1].cls.name = <<"F", "o">>
    /\ Len(resp.results[1].members) = 2
    /\ \E k \in 1..Len(db[1].classes) :
          /\ db[1].classes[k].name = <<"F", "o">>
          /\ db[1].classes[k].package = "chain-api"
          /\ OwnedIds(db[1], db[1].classes[k].id) # {}

\* the positions of the member rows a method lookup is to return: name is
\* the member's name, owner the name of the owning declaration when the
\* lookup is qualified
MemberHits(st, owner, name, pkg) ==
    {m \in 1..Len(st.members) :
        /\ st.members[m].name = name
        /\ \E k \in 1..Len(st.classes) :
              /\ st.classes[k].id = st.members[m].class_id
              /\ (owner = NULL \/ st.classes[k].name = owner[1])
              /\ (pkg = NULL \/ st.classes[k].package = pkg[1])}

ModuleOf(row) ==
    [name |-> row.name, package |-> row.package, type |-> row.type,
     description |-> row.description]

\* C15: listModules returns exactly the declarations whose package is the
\* package filter (any package for 'all') and whose kind is the type filter
\* (any kind for 'all'), each once, in the order of package, then kind, then
\* name.
C15_ModulesFilteredAndOrdered ==
    (resp.tool = "listModules" /\ resp.kind \in {"found", "notFound"})
        => LET st == db[1]
               pkg == OrDefault(resp.args.package, "all")
               type == OrDefault(resp.args.type, "all")
               hits == {k \in 1..Len(st.classes) :
                           /\ (pkg = "all" \/ st.classes[k].package = pkg)
                           /\ (type = "all" \/ st.classes[k].type = type)}
               rs == resp.results
           IN /\ Len(rs) = Cardinality(hits)
              /\ \A k \in hits :
                    Cardinality({i \in 1..Len(rs) : rs[i] = ModuleOf(st.classes[k])})
                        = Cardinality({j \in hits :
                                          ModuleOf(st.classes[j]) = ModuleOf(st.classes[k])})
              /\ \A i \in 1..(Len(rs) - 1) :
                    \/ IndexIn(PackageOrder, rs[i].package)
                           < IndexIn(PackageOrder, rs[i + 1].package)
                    \/ /\ rs[i].package = rs[i + 1].package
                       /\ IndexIn(TypeOrder, rs[i].type) < IndexIn(TypeOrder, rs[i + 1].type)
                    \/ /\ rs[i].package = rs[i + 1].package
                       /\ rs[i].type = rs[i + 1].type
                       /\ ~TextLess(rs[i + 1].name, rs[i].name)

\* C15 witness: all three declarations are listed, and the second listed is
\* not the second inserted
C15_Witness ==
    /\ resp.tool = "listModules"
    /\ resp.args.package = NULL
    /\ resp.args.type = NULL
    /\ Len(resp.results) = 3
    /\ resp.results[2].name # db[1].classes[2].name

\* the declarations a build of a file set inserts, in the order of their rows
RECURSIVE InsertedClasses(_)
InsertedClasses(fs) ==
    IF fs = <<>> THEN <<>>
    ELSE (IF isTypedocFile(Head(fs).path) THEN Head(fs).classes ELSE <<>>)
         \o InsertedClasses(Tail(fs))

\* the file set the open store was built from
BuiltFrom == CHOOSE fs \in LookupFileSets : BuildStore(fs) = db[1]

\* C16: the implements list, the decorator list and each member's parameter
\* list that getClass returns for a declaration are equal, element for
\* element and in order, to the lists the build inserted the declaration
\* with; and the stored text of each of these lists of every declaration row
\* parses back to the inserted list.
C16_JsonListsRoundTrip ==
    /\ (resp.tool = "getClass" /\ resp.kind = "found")
          => LET r == resp.results[1]
                 c == InsertedClasses(BuiltFrom)[r.cls.id]
             IN /\ r.implementsClause = c.implementsClause
                /\ r.decorators = c.decorators
                /\ Len(r.members) = Len(c.members)
                /\ \A j \in 1..Len(r.members) :
                      /\ r.members[j].params = c.members[j].params
                      /\ r.members[j].decorators = c.members[j].decorators
    /\ (pc = "serving" /\ bpc = "idle" /\ db # NULL /\ \E fs \in LookupFileSets : BuildStore(fs) = db[1])
          => \A k \in 1..Len(db[1].classes) :
                /\ parseStrings(db[1].classes[k].implements_clause)
                      = Some(InsertedClasses(BuiltFrom)[k].implementsClause)
                /\ parseStrings(db[1].classes[k].decorators)
                      = Some(InsertedClasses(BuiltFrom)[k].decorators)

\* C16 witness: getClass returns the declaration whose implements list has a
\* name with a quote and whose member has a parameter type with a quote and
\* a backslash
C16_Witness ==
    /\ resp.tool = "getClass"
    /\ resp.kind = "found"
    /\ resp.results[1].implementsClause = << <<"A">>, <<"B", "\"">> >>
    /\ Len(resp.results[1].members) = 1
    /\ resp.results[1].members[1].params = <<ParamA, ParamB>>

\* the node kinds whose text the callback of visit() collects
ContentTypes == {"paragraph", "code", "list", "blockquote"}

\* the position of the first heading after position i of a document, or the
\* position after its last node
NextHeading(doc, i) ==
    LET later == {j \in (i + 1)..Len(doc) : doc[j].type = "heading"}
    IN IF later = {} THEN Len(doc) + 1 ELSE CHOOSE j \in later : \A k \in later : j <= k

\* the content nodes between the heading at position i and the next heading
ContentUnder(doc, i) ==
    {j \in (i + 1)..(NextHeading(doc, i) - 1) : doc[j].type \in ContentTypes}

\* the positions of the headings that are followed by a content node before
\* the next heading
HeadingsWithContent(doc) ==
    {i \in 1..Len(doc) : doc[i].type = "heading" /\ ContentUnder(doc, i) # {}}

\* the k-th smallest member of a set of positions
RECURSIVE Kth(_, _)
Kth(S, k) ==
    LET m == CHOOSE x \in S : \A y \in S : x <= y
    IN IF k = 1 THEN m ELSE Kth(S \ {m}, k - 1)

\* C17 (as claimed): parseMarkdown returns one chunk for each heading that is
\* followed by a content block before the next heading, in document order,
\* and a second call on the same input returns the same chunks.
C17_ChunkPerHeadingWithContent ==
    /\ \A c \in 1..Len(parserOut) :
          LET hs == HeadingsWithContent(parserIn)
          IN /\ Len(parserOut[c]) = Cardinality(hs)
             /\ \A k \in 1..Len(parserOut[c]) :
                   /\ k <= Cardinality(hs)
                   /\ parserOut[c][k].title = parserIn[Kth(hs, k)].text
                   /\ parserOut[c][k].headingLevel = parserIn[Kth(hs, k)].depth
    /\ Len(parserOut) = 2 => parserOut[1] = parserOut[2]

\* C17 (amended): parseMarkdown returns one chunk for each heading with a
\* non-empty text that is followed by a content block before the next
\* heading, in document order, and a second call on the same input returns
\* the same chunks.
C17_ChunkPerTitledHeadingWithContent ==
    /\ \A c \in 1..Len(parserOut) :
          LET hs == {i \in HeadingsWithContent(parserIn) : parserIn[i].text # <<>>}
          IN /\ Len(parserOut[c]) = Cardinality(hs)
             /\ \A k \in 1..Len(parserOut[c]) :
                   /\ k <= Cardinality(hs)
                   /\ parserOut[c][k].title = parserIn[Kth(hs, k)].text
                   /\ parserOut[c][k].headingLevel = parserIn[Kth(hs, k)].depth
    /\ Len(parserOut) = 2 => parserOut[1] = parserOut[2]

\* C17 witness: a document of a heading with content, a heading without
\* text with content and a heading without content has been parsed twice
\* into one chunk
C17_Witness ==
    /\ Len(parserOut) = 2
    /\ Len(parserOut[1]) = 1
    /\ Len(parserIn) = 4
    /\ parserIn[1].type = "heading" /\ parserIn[1].text # <<>>
    /\ parserIn[2].type = "code"
    /\ parserIn[3].type = "heading" /\ parserIn[3].text = <<>>
    /\ parserIn[4].type = "paragraph"

\* C18: every chunk has a non-empty title and a non-empty content; a document
\* without headings yields no chunk and the content before the first heading
\* is in no chunk; the content of a chunk is made of the content blocks
\* between its heading and the next heading of any level, and of no block
\* that follows a later heading.
C18_ChunksNonEmptyAndClosed ==
    \A c \in 1..Len(parserOut) :
        LET chunks == parserOut[c]
            hs == {i \in HeadingsWithContent(parserIn) : parserIn[i].text # <<>>}
        IN /\ \A k \in 1..Len(chunks) :
                 /\ chunks[k].title # <<>>
                 /\ chunks[k].content # <<>>
           /\ (\A i \in 1..Len(parserIn) : parserIn[i].type # "heading") => chunks = <<>>
           /\ Len(chunks) = Cardinality(hs)
           /\ \A k \in 1..Len(chunks) :
                 k <= Cardinality(hs)
                    => LET under == ContentUnder(parserIn, Kth(hs, k))
                       IN chunks[k].content
                            = joinWith([n \in 1..Cardinality(under) |->
                                           visitNode([currentContent |-> <<>>],
                                                     parserIn[Kth(under, n)]).currentContent[1]],
                                       <<"\n", "\n">>)

\* C19: a member extracted from a code block whose line is name(args) has
\* that name, and as many parameters as args has top-level argument groups,
\* whatever the groups nest and whatever text follows the block.
C19_NameAndParamCount ==
    (parserIn.kind = "block" /\ parserOut # <<>>)
        => \A k \in 1..Len(parserOut[1]) :
              /\ parserOut[1][k].name = parserIn.name
              /\ Len(parserOut[1][k].params) = Len(parserIn.groups)

\* a section has the label: the word Extends, in either case, and a colon
HasExtendsLabel(section) ==
    \E i \in 1..(Len(section) - 1) :
        section[i] \in {"extends", "Extends"} /\ section[i + 1] = ":"

\* C20: the extends clause extracted from a section without an 'Extends:'
\* label is null.
C20_NoLabelNoExtends ==
    (parserIn.kind = "section" /\ parserOut # <<>> /\ ~HasExtendsLabel(parserIn.section))
        => parserOut[1].extendsClause = NULL

\* the kinds of structured text response the handler returns; "caught" is
\* the text that starts with 'Error: '
ResponseKinds == {"building", "error", "invalid", "notFound", "found", "caught"}

\* a call raises inside the handler's try: the tool is unknown, or the index
\* is ready and a tool that queries the store outside a try of its own
\* finds the store handle not open
Raises(call, status, handle) ==
    \/ call.name \notin {"search_galachain_docs", "get_galachain_class",
                         "get_galachain_method", "list_galachain_modules"}
    \/ /\ status = "ready"
       /\ handle = NULL
       /\ \/ call.name = "list_galachain_modules"
          \/ /\ call.name \in {"get_galachain_class", "get_galachain_method"}
             /\ ~IsBlank(call.args.name)

C22_OneClassPerName ==
    (parserIn.kind = "file" /\ parserOut # <<>>)
        => \A i, j \in 1..Len(parserOut[1]) :
              parserOut[1][i].name = parserOut[1][j].name => i = j

\* the packages of the API reference
ApiPackages == {"chain-api", "chain-client", "chain-test", "chaincode"}

\* C23: for every path, the classes extracted from a reference-parsed file
\* get the package the doc chunks of the same file get, and the build
\* reference-parses a file exactly when the parsers give it the category
\* 'api' and a package of the API reference.
C23_PathClassificationAgrees ==
    (parserIn.kind = "path" /\ parserOut # <<>>)
        => /\ parserOut[1].typedoc => parserOut[1].classPackage = parserOut[1].docPackage
           /\ parserOut[1].typedoc
                <=> /\ parserOut[1].category = "api"
                    /\ parserOut[1].docPackage \in ApiPackages
                    /\ parserOut[1].classPackage \in ApiPackages

\* the rows a step appended to a table
NewRows(before, after) == SubSeq(after, Len(before) + 1, Len(after))

\* What one iteration of the loop of buildIndex did for its file: every
\* chunk of the file became a doc row; class and member rows were inserted
\* for all classes of a reference file and for no class of another file;
\* and doc rows were inserted only after all class and member rows.
FileDone(file, docs, classes, members) ==
    LET all == [c \in 1..Len(file.classes) |-> file.classes[c].members]
    IN /\ Len(docs) = Len(file.chunks)
       /\ \A k \in 1..Len(docs) : /\ docs[k].title = file.chunks[k].title
                                  /\ docs[k].file_path = file.path
       /\ Len(classes) = IF isTypedocFile(file.path) THEN Len(file.classes) ELSE 0
       /\ Len(members) = IF isTypedocFile(file.path) THEN SumLen(all) ELSE 0

RankedText(st, r) ==
    LET row(table) == SelectSeq(table, LAMBDA x : x.id = r.id)[1]
    IN CASE r.type = "doc" -> row(st.docs).title \o <<" ">> \o row(st.docs).content
         [] r.type = "class" ->
               row(st.classes).name \o <<" ">> \o row(st.classes).description
         [] OTHER -> row(st.members).name \o <<" ">> \o row(st.members).description
                     \o <<" ">> \o row(st.members).signature

\* 20 for a term that occurs in a text as a whole word, else 10 for one that
\* occurs as a substring, and 30 more when the first word of the text
\* equals or contains the term
TermPoints(text, term) ==
    LET lower == toLowerCase(text)
        starts == {i \in 1..Len(lower) : MatchAt(lower, term, i)}
        whole(i) == /\ (i = 1 \/ ~IsWordChar(lower[i - 1]))
                    /\ (i + Len(term) > Len(lower) \/ ~IsWordChar(lower[i + Len(term)]))
        first == IF splitWs(lower) = <<>> THEN <<>> ELSE splitWs(lower)[1]
    IN (IF \E i \in starts : whole(i) THEN 20 ELSE IF starts # {} THEN 10 ELSE 0)
       + (IF includes(first, term) THEN 30 ELSE 0)

\* C25: the rank of every returned row is 100 minus the points of every
\* query term, minus 5 for a text shorter than 100 characters and 5 more for
\* one shorter than 50, for every number of terms.
C25_ScoreIsTheSum ==
    (resp.tool = "search" /\ resp.kind = "found")
        => \A k \in 1..Len(resp.results) :
              LET text == RankedText(db[1], resp.results[k])
                  terms == searchTerms(resp.args.query[1])
                  points == [t \in 1..Len(terms) |-> TermPoints(text, terms[t])]
                  RECURSIVE Sum(_)
                  Sum(n) == IF n = 0 THEN 0 ELSE points[n] + Sum(n - 1)
              IN resp.results[k].rank
                    = 100 - Sum(Len(terms)) - (IF Len(text) < 100 THEN 5 ELSE 0)
                          - (IF Len(text) < 50 THEN 5 ELSE 0)

\* C26: a parameter extracted from the signature with a type keeps that type
\* when the bullet lines of the section are applied: the parameters of the
\* member start with the parameters of the signature, types unchanged.
C26_EnrichmentKeepsTypes ==
    (parserIn.kind = "block" /\ parserOut # <<>>)
        => LET fromSignature == parseParams(<<>>, parserIn.signature)
           IN \A m \in 1..Len(parserOut[1]) :
                 /\ Len(parserOut[1][m].params) >= Len(fromSignature)
                 /\ \A k \in 1..Len(fromSignature) :
                       /\ parserOut[1][m].params[k].name = fromSignature[k].name
                       /\ fromSignature[k].type # <<>>
                             => parserOut[1][m].params[k].type = fromSignature[k].type

\* the names of constructors
ConstructorNames == {<<"constructor">>, <<"new">>}

\* C27: a member named constructor or new has the kind constructor, whether
\* it was extracted from a member heading or from a code-block signature
\* and whatever its section holds; a member with another name, with no
\* parenthesis in its signature and no word method in its section has the
\* kind property.
C27_ConstructorAndPropertyKinds ==
    /\ (parserIn.kind = "block" /\ parserOut # <<>>)
          => \A m \in 1..Len(parserOut[1]) :
                parserOut[1][m].name \in ConstructorNames
                    => parserOut[1][m].type = "constructor"
    /\ (parserIn.kind = "member" /\ parserOut # <<>>)
          => /\ parserOut[1].name \in ConstructorNames
                   => parserOut[1].type = "constructor"
             /\ (/\ parserOut[1].name \notin ConstructorNames
                 /\ \A i \in 1..Len(parserOut[1].signature) :
                       parserOut[1].signature[i] # "("
                 /\ \A i \in 1..Len(parserIn.section) : parserIn.section[i] # "method")
                   => parserOut[1].type = "property"

\* C28: in the server process, from the moment it serves requests, a status
\* 'ready' or 'error' never changes: the status changes only from 'building'
\* to 'ready' or to 'error'; 'building' is entered only by the start of
\* main() when no store file exists; a build is started only by the start
\* of main(), and a build that has settled is never started again.
C28_StatusSettlesOnce ==
    /\ [][(pc = "serving" /\ indexStatus \in {"ready", "error"})
             => indexStatus' = indexStatus]_vars
    /\ [][(pc = "serving" /\ indexStatus' # indexStatus)
             => (indexStatus = "building" /\ indexStatus' \in {"ready", "error"})]_vars
    /\ [][(indexStatus # "building" /\ indexStatus' = "building")
             => (pc = "start" /\ disk = NULL /\ ~argvRebuild)]_vars
    /\ [][(bpc = "idle" /\ bpc' # "idle") => pc = "start"]_vars
    /\ [][(bpc \in {"resolved", "rejected"}) => (bpc' = bpc)]_vars

\* the background build was rejected, the status went from 'building' to
\* 'error', and a later request was answered with it
C28_Witness ==
    /\ pc = "serving"
    /\ ~argvRebuild
    /\ bpc = "rejected"
    /\ indexStatus = "error"
    /\ resp.tool \in FourTools
    /\ resp.status = "error"

\* the store after the first n steps of the for loop's iteration over a file
AfterSteps(st, file, n) ==
    ApplySteps([st |-> st, classId |-> 0, docCount |-> 0, classCount |-> 0,
                memberCount |-> 0], file, FileSteps(file), n).st

\* the member rows of a store owned by the declaration row with an id
OwnedBy(st, id) == SelectSeq(st.members, LAMBDA m : m.class_id = id)

\* C29: every member row is owned by the declaration it was extracted with.
\* During the build, whichever step of a file's iteration is reached, a
\* member insert writes as owner id the id of the newest declaration row,
\* and that row is the row of the member's own declaration in the same
\* file. After a build that resolved, every member row of the saved store
\* has exactly one declaration row with its owner id, and the members owned
\* by the c-th declaration row of a file that was processed without a throw
\* are the members of the c-th declaration of that file, in order, also when
\* another file declares the same name.
C29_MembersOwnedByTheirDeclaration ==
    /\ (bpc = "files" /\ fileIdx <= Len(files))
          => LET file == files[fileIdx]
                 steps == FileSteps(file)
             IN \A n \in 1..Len(steps) :
                   steps[n].op = "insertMemberRow"
                      => LET st == AfterSteps(db[1], file, n)
                             m == st.members[Len(st.members)]
                             owner == st.classes[Len(st.classes)]
                             cls == file.classes[steps[n].c]
                         IN /\ m.class_id = owner.id
                            /\ m.name = cls.members[steps[n].j].name
                            /\ owner.name = cls.name
                            /\ owner.type = cls.type
                            /\ owner.file_path = file.path
                            /\ Len(st.classes)
                                  = Len(db[1].classes) + steps[n].c
    /\ bpc = "resolved"
          => LET st == disk[1]
             IN /\ \A k \in 1..Len(st.members) :
                      Cardinality({i \in 1..Len(st.classes) :
                                      st.classes[i].id = st.members[k].class_id}) = 1
                /\ \A f \in 1..Len(files) :
                      (f \notin failedFiles /\ isTypedocFile(files[f].path))
                         => LET rows == ClassesOf(st, files[f].path)
                            IN /\ Len(rows) = Len(files[f].classes)
                               /\ \A c \in 1..Len(rows) :
                                     LET owned == OwnedBy(st, rows[c].id)
                                         members == files[f].classes[c].members
                                     IN /\ rows[c].name = files[f].classes[c].name
                                        /\ Len(owned) = Len(members)
                                        /\ \A j \in 1..Len(owned) :
                                              /\ owned[j].name = members[j].name
                                              /\ owned[j].signature = members[j].signature

\* a build of the two reference files that both declare Fo resolved; the
\* second Fo owns two members and the first Fo one
C29_Witness ==
    /\ bpc = "resolved"
    /\ failedFiles = {}
    /\ \E i, k \in 1..Len(disk[1].classes) :
          /\ i < k
          /\ disk[1].classes[i].name = disk[1].classes[k].name
          /\ Len(OwnedBy(disk[1], disk[1].classes[i].id)) = 1
          /\ Len(OwnedBy(disk[1], disk[1].classes[k].id)) = 2

\* the declaration rows of a store that match every term and the package
\* filter, whatever their kind, up to the limit
MatchingClasses(st, terms, pkg, limit) ==
    SqlLimit(SelectSeq(st.classes,
                       LAMBDA row : /\ LikeAll(row.search_text, terms)
                                    /\ (pkg = "all" \/ row.package = pkg)), limit)

\* the ids of the items of a sequence of rows or results
IdsOf(rows) == {rows[i].id : i \in 1..Len(rows)}

\* C30: with the type filter 'interface' every declaration returned by a
\* search has the kind 'interface'; with the type filter 'class' the
\* declarations returned are the matching declarations of every kind, the
\* same rows the declaration query selects for the filter 'all'.
C30_ClassFilterKeepsEveryKind ==
    (resp.tool = "search" /\ resp.kind = "found" /\ resp.args.query # NULL)
        => LET terms == searchTerms(resp.args.query[1])
               pkg == OrDefault(resp.args.package, "all")
               limit == Min(Max(AskedLimit(resp.args), 1), MaxLimit)
           IN /\ AskedType(resp.args) = "interface"
                    => \A i \in 1..Len(resp.results) :
                          /\ resp.results[i].type = "class"
                          /\ resp.results[i].category = "interface"
              /\ (AskedType(resp.args) = "class" /\ terms # <<>>)
                    => /\ IdsOf(resp.results)
                             = IdsOf(MatchingClasses(db[1], terms, pkg, limit))
                       /\ IdsOf(resp.results)
                             = IdsOf(searchClassRows(db, terms, pkg, "all", limit))
                       /\ \A i \in 1..Len(resp.results) :
                             resp.results[i].type = "class"

\* a search with the type filter 'class' returned a declaration of kind
\* 'interface' next to one of kind 'class'
C30_Witness ==
    /\ resp.tool = "search"
    /\ resp.kind = "found"
    /\ resp.args.type = Some("class")
    /\ \E i, k \in 1..Len(resp.results) :
          /\ resp.results[i].type = "class"
          /\ resp.results[i].category = "interface"
          /\ resp.results[k].type = "class"
          /\ resp.results[k].category = "class"

====
